---- MODULE Spec2Model ----
(***************************************************************************)
(* Static Runtime (torch/csrc/jit/runtime/static/impl.cpp): graph analysis *)
(* (always-alive values, liveness map, reuse candidates, same-storage      *)
(* clusters), StaticModule construction, StaticRuntime::operator() and the *)
(* MemoryPlanner, modelled as a state machine.                             *)
(*                                                                         *)
(* Conventions.  Values of the graph are strings.  Node indices and slot   *)
(* indices are 1-based here where the C++ is 0-based.  A tensor IValue     *)
(* names its StorageImpl; a StorageImpl has a data pointer (NULL, its own  *)
(* heap block, or an offset into the planner's buffer) and nbytes; the     *)
(* bytes a tensor holds are an uninterpreted term over the run's inputs.   *)
(***************************************************************************)
EXTENDS Integers, Sequences, FiniteSets, TLC

VARIABLES
  graph,        \* graph_ : the frozen graph (inputs, nodes, outputs)
  opts,         \* opts_ : StaticModuleOptions
  constants_,   \* StaticModule::constants_ : the constants pool (IValues)
  sm,           \* the rest of the StaticModule: wiring and analysis results
  inputs_,      \* StaticRuntime::inputs_ : input slots
  nodeOut,      \* ProcessedNode::outputs_ of each node of StaticRuntime::nodes_
  storages,     \* StorageImpl of every tensor: data pointer and nbytes
  heap,         \* contents of each storage's own heap block
  arena,        \* contents of the planner's buffer, by byte offset
  planner,      \* StaticRuntime::planner_ (NoPlanner until it is created)
  pc,           \* position inside StaticRuntime::operator()
  cur,          \* index of the next node to run in the node loop
  args,         \* the arguments of the invoke in progress (a shape)
  ret,          \* the value returned by the last finished invoke
  prevRet,      \* args and return value of the invoke before that
  trace,        \* the steps of the invoke in progress, in order
  stats,        \* counters: finished invokes, planners built, buffers allocated
  corrupt       \* a node of this invoke read bytes its producer did not write

vars == <<graph, opts, constants_, sm, inputs_, nodeOut, storages, heap, arena,
          planner, pc, cur, args, ret, prevRet, trace, stats, corrupt>>

(***************************************************************************)
(* Bounds of the model.                                                    *)
(***************************************************************************)
\* invokes per behaviour
MaxRuns == 3
\* input shapes: an input tensor of shape s holds s * UnitBytes bytes
MaxShape == 2

\* bytes per unit of shape (size of the input tensors' elements)
UnitBytes == 48
\* c10::gAlignment, the alignment of compute_aligned_tensor_size
gAlignment == 64

(***************************************************************************)
(* Generic helpers.                                                        *)
(***************************************************************************)
Range(s) == {s[i] : i \in DOMAIN s}

Contains(s, x) == \E i \in DOMAIN s : s[i] = x

MaxNat(a, b) == IF a >= b THEN a ELSE b

RECURSIVE SumSeq(_)
SumSeq(s) == IF s = <<>> THEN 0 ELSE Head(s) + SumSeq(Tail(s))

\* append x to s unless s already holds it
AddOnce(s, x) == IF Contains(s, x) THEN s ELSE Append(s, x)

RECURSIVE ConcatOnce(_, _)
ConcatOnce(s, t) ==
  IF t = <<>> THEN s ELSE ConcatOnce(AddOnce(s, Head(t)), Tail(t))

(***************************************************************************)
(* The graph (torch::jit::Graph) and the kernel library                    *)
(* (runtime/static/ops.h).  A node is [kind, ins, outs, ann]; ann is the   *)
(* set of input positions its schema says the output may alias.            *)
(***************************************************************************)
ConstantKind == "prim::Constant"

\* the operator vocabulary: "add" has an out variant, "view" is a native
\* op whose output shares its first input's storage, "op" has neither and
\* runs as a boxed operator, "pack" builds a container with an out variant
\* SROperatorRegistry: kinds with an out variant
getOutOfPlaceOperation(kind) == kind \in {"add", "pack"}

\* SRNativeOperatorRegistry: kinds with a native implementation
getNativeOperation(kind) == kind \in {"view", "prim::TupleConstruct"}

\* SRNativeOperatorRegistry()->Has(name)
nativeOpIsRegistered(kind) == getNativeOperation(kind)

\* Node::maybeOperator: the kinds that resolve to a registered Operator;
\* prim::TupleConstruct is native only, prim::CallMethod is what an unfrozen
\* module leaves in the graph
maybeOperator(kind) == kind \in {"add", "view", "op", "pack"}

\* node->blocks().size(); the nodes of the runtime's graphs have no sub-block
Blocks(n) == IF "blocks" \in DOMAIN n THEN n.blocks ELSE 0

\* a support check that does not look at sub-blocks
canEnableStaticRuntime_NoBlocks(g) ==
  \A i \in DOMAIN g.nodes :
    g.nodes[i].kind = ConstantKind
      \/ maybeOperator(g.nodes[i].kind)
      \/ nativeOpIsRegistered(g.nodes[i].kind)

\* the loop of canEnableStaticRuntime from node i on, with its two flags
RECURSIVE SupportScan(_, _, _, _)
SupportScan(g, i, can_support, has_blocks) ==
  IF i > Len(g.nodes)
  THEN IF has_blocks THEN FALSE ELSE can_support
  ELSE LET node == g.nodes[i]
           hb == has_blocks \/ Blocks(node) > 0
       IN IF node.kind = ConstantKind
          THEN SupportScan(g, i + 1, can_support, hb)
          ELSE IF ~maybeOperator(node.kind) /\ ~nativeOpIsRegistered(node.kind)
               THEN SupportScan(g, i + 1, FALSE, hb)
               ELSE SupportScan(g, i + 1, can_support, hb)

canEnableStaticRuntime(g) == SupportScan(g, 1, TRUE, FALSE)

canReuseInputsOutputs(n) == n.kind = "add"

isOptimizableContainerType(n) == n.kind = "pack"

\* the static type of a node's outputs: tensor unless a container
IsTensorKind(kind) == kind # "pack"

OpNode(kind, ins, out, ann) ==
  [kind |-> kind, ins |-> ins, outs |-> <<out>>, ann |-> ann]

ConstNode(out) == OpNode(ConstantKind, <<>>, out, {})

\* graph->nodes() without the constants, in order: StaticModule::nodes_
OpNodes(g) == SelectSeq(g.nodes, LAMBDA n : n.kind # ConstantKind)

ConstNodes(g) == SelectSeq(g.nodes, LAMBDA n : n.kind = ConstantKind)

NodeOuts(g) == UNION {Range(g.nodes[i].outs) : i \in DOMAIN g.nodes}

AllValues(g) == Range(g.inputs) \cup NodeOuts(g)

\* position in g.nodes of the node that defines v (0 for a graph input)
DefPos(g, v) ==
  IF \E i \in DOMAIN g.nodes : Contains(g.nodes[i].outs, v)
  THEN CHOOSE i \in DOMAIN g.nodes : Contains(g.nodes[i].outs, v)
  ELSE 0

\* the Return node of the block: its inputs are the graph outputs
ReturnNode == 0

\* Value::uses(): the nodes that have v as an input
Uses(g, v) ==
  {i \in DOMAIN g.nodes : Contains(g.nodes[i].ins, v)}
    \cup (IF Contains(g.outputs, v) THEN {ReturnNode} ELSE {})

ValueIsTensor(g, v) ==
  DefPos(g, v) = 0 \/ IsTensorKind(g.nodes[DefPos(g, v)].kind)

(***************************************************************************)
(* AliasDb (torch/csrc/jit/ir/alias_analysis.h), a points-to analysis:     *)
(* every graph input is a wildcard, a node without alias annotation gives  *)
(* its output a fresh memory location, an annotated output points to what  *)
(* the annotated inputs point to, a container contains what its elements   *)
(* point to.                                                               *)
(***************************************************************************)
RECURSIVE Elements(_, _)
Elements(g, v) ==
  LET p == DefPos(g, v) IN
  IF p = 0 THEN {"wildcard"}
  ELSE IF g.nodes[p].ann = {} THEN {v}
  ELSE UNION {Elements(g, g.nodes[p].ins[i]) : i \in g.nodes[p].ann}

RECURSIVE ContainedElements(_, _)
ContainedElements(g, v) ==
  LET p == DefPos(g, v) IN
  IF p = 0 THEN {"wildcard"}
  ELSE IF g.nodes[p].kind = "pack"
  THEN {v} \cup UNION {ContainedElements(g, g.nodes[p].ins[i]) :
                         i \in DOMAIN g.nodes[p].ins}
  ELSE IF g.nodes[p].ann = {} THEN {v}
  ELSE UNION {ContainedElements(g, g.nodes[p].ins[i]) : i \in g.nodes[p].ann}

\* AliasDb::mayAlias(a, b)
mayAlias(g, a, b) == Elements(g, a) \cap Elements(g, b) # {}

\* mayContainAlias(db, a, b) on two values
mayContainAlias(g, a, b) ==
  ContainedElements(g, a) \cap ContainedElements(g, b) # {}

\* mayContainAlias(db, as, bs) on two sets of values
mayContainAliasSets(g, as, bs) ==
  \E a \in as : \E b \in bs : mayContainAlias(g, a, b)

(***************************************************************************)
(* GetAlwaysAliveValues                                                    *)
(***************************************************************************)
\* the outputs of a sequence of nodes, in order
RECURSIVE OutsOf(_)
OutsOf(nodes) ==
  IF nodes = <<>> THEN <<>> ELSE Head(nodes).outs \o OutsOf(Tail(nodes))

\* values_in_creation_order of GetLivenessMap
ValuesInCreationOrder(g) == OutsOf(g.nodes)

\* an always-alive set seeded without the graph outputs
GetAlwaysAliveValues_NoOutputs(g) ==
  LET seed == Range(g.inputs) \cup Range(OutsOf(ConstNodes(g)))
      outs == OutsOf(OpNodes(g))
      RECURSIVE Expand(_, _)
      Expand(S, k) ==
        IF k > Len(outs) THEN S
        ELSE Expand(IF mayContainAliasSets(g, {outs[k]}, S)
                    THEN S \cup {outs[k]} ELSE S, k + 1)
  IN Expand(seed, 1)

GetAlwaysAliveValues(g) ==
  LET seed == Range(g.inputs) \cup Range(g.outputs)
                \cup Range(OutsOf(ConstNodes(g)))
      outs == OutsOf(OpNodes(g))
      RECURSIVE Expand(_, _)
      Expand(S, k) ==
        IF k > Len(outs) THEN S
        ELSE Expand(IF mayContainAliasSets(g, {outs[k]}, S)
                    THEN S \cup {outs[k]} ELSE S, k + 1)
  IN Expand(seed, 1)

(***************************************************************************)
(* GetLivenessMap.  The state of the scan is a record: liveness_map,       *)
(* live_values_use_chain and live_nodes_def_chain are functions whose      *)
(* domain is the set of keys of the C++ map; failed records that a map     *)
(* lookup with at() or a TORCH_CHECK threw.                                *)
(***************************************************************************)
MapGet(m, k) == IF k \in DOMAIN m THEN m[k] ELSE {}

MapPut(m, k, x) == [j \in DOMAIN m \cup {k} |-> IF j = k THEN x ELSE m[j]]

\* record v in the def chain of every node of `users`
DefChainAdd(dc, users, v) ==
  [n \in DOMAIN dc \cup users |->
     IF n \in users THEN MapGet(dc, n) \cup {v} ELSE dc[n]]

IdxInCreationOrder(g, v) ==
  CHOOSE i \in DOMAIN ValuesInCreationOrder(g) : ValuesInCreationOrder(g)[i] = v

\* the values created at or after v that may contain an alias of v
RefinedAliases(g, v) ==
  LET order == ValuesInCreationOrder(g)
      idx == IdxInCreationOrder(g, v)
  IN SelectSeq(SubSeq(order, idx, Len(order)),
               LAMBDA a : mayContainAlias(g, v, a))

RECURSIVE add_live_value_fn(_, _, _)
RECURSIVE AddAliases(_, _, _, _)
\* the loop over refined_aliases of add_live_value_fn(v)
AddAliases(g, st, v, aliases) ==
  IF aliases = <<>> \/ st.failed THEN st
  ELSE
    LET a == Head(aliases)
        s1 == add_live_value_fn(g, st, a)
        users == Uses(g, a)
        s2 == IF s1.failed \/ users = {} THEN s1
              ELSE IF v \notin DOMAIN s1.use_chain
              THEN [s1 EXCEPT !.failed = TRUE]
              ELSE [s1 EXCEPT
                      !.use_chain = [@ EXCEPT ![v] = @ \cup users],
                      !.def_chain = DefChainAdd(@, users, v)]
    IN AddAliases(g, s2, v, Tail(aliases))

\* an activation that records the live values for v but not v for them
add_live_value_fn_OneWay(g, st, v) ==
  IF st.failed \/ v \in DOMAIN st.liveness_map THEN st
  ELSE
    LET live == DOMAIN st.use_chain
        lm == [w \in DOMAIN st.liveness_map \cup {v} |->
                 IF w = v THEN live ELSE st.liveness_map[w]]
        users == Uses(g, v)
        s1 == [st EXCEPT
                 !.liveness_map = lm,
                 !.use_chain = IF users # {} THEN MapPut(@, v, users) ELSE @,
                 !.def_chain = DefChainAdd(@, users, v)]
    IN AddAliases(g, s1, v, RefinedAliases(g, v))

add_live_value_fn(g, st, v) ==
  IF st.failed \/ v \in DOMAIN st.liveness_map THEN st
  ELSE
    LET live == DOMAIN st.use_chain
        lm == [w \in DOMAIN st.liveness_map \cup {v} |->
                 IF w = v THEN live
                 ELSE IF w \in live THEN st.liveness_map[w] \cup {v}
                 ELSE st.liveness_map[w]]
        users == Uses(g, v)
        s1 == [st EXCEPT
                 !.liveness_map = lm,
                 !.use_chain = IF users # {} THEN MapPut(@, v, users) ELSE @,
                 !.def_chain = DefChainAdd(@, users, v)]
    IN AddAliases(g, s1, v, RefinedAliases(g, v))

\* a traverse_node_fn after which the dead values are not erased
traverse_node_fn_KeepDead(st, node) ==
  IF st.failed \/ node \notin DOMAIN st.def_chain THEN st
  ELSE
    LET touched == st.def_chain[node]
    IN IF \E v \in touched : v \notin DOMAIN st.use_chain
       THEN [st EXCEPT !.failed = TRUE]
       ELSE [st EXCEPT
               !.use_chain = [v \in DOMAIN st.use_chain |->
                                IF v \in touched THEN st.use_chain[v] \ {node}
                                ELSE st.use_chain[v]]]

\* traverse_node_fn and the erasure of the dead values that follows it
traverse_node_fn(st, node) ==
  IF st.failed \/ node \notin DOMAIN st.def_chain THEN st
  ELSE
    LET touched == st.def_chain[node]
    IN IF \E v \in touched : v \notin DOMAIN st.use_chain
       THEN [st EXCEPT !.failed = TRUE]
       ELSE
         LET erased == [v \in DOMAIN st.use_chain |->
                          IF v \in touched THEN st.use_chain[v] \ {node}
                          ELSE st.use_chain[v]]
             dead == {v \in touched : erased[v] = {}}
         IN [st EXCEPT
               !.use_chain = [v \in DOMAIN erased \ dead |-> erased[v]]]

RECURSIVE ActivateOutputs(_, _, _, _)
ActivateOutputs(g, st, always_alive, outs) ==
  IF outs = <<>> THEN st
  ELSE ActivateOutputs(g,
         IF Head(outs) \in always_alive THEN st
         ELSE add_live_value_fn(g, st, Head(outs)),
         always_alive, Tail(outs))

\* the main scan over graph->nodes(), from node i on
RECURSIVE LivenessScan(_, _, _, _)
LivenessScan(g, st, always_alive, i) ==
  IF i > Len(g.nodes) THEN st
  ELSE LivenessScan(g,
         traverse_node_fn(
           ActivateOutputs(g, st, always_alive, g.nodes[i].outs), i),
         always_alive, i + 1)

LivenessInit ==
  [liveness_map |-> <<>>, use_chain |-> <<>>, def_chain |-> <<>>,
   failed |-> FALSE]

\* the pairs (input, output) of one node that the last loop marks live together
SameNodePairs(g, lm) ==
  {<<a, b>> \in (DOMAIN lm) \X (DOMAIN lm) :
     \E i \in DOMAIN g.nodes :
       \/ Contains(g.nodes[i].ins, a) /\ Contains(g.nodes[i].outs, b)
       \/ Contains(g.nodes[i].ins, b) /\ Contains(g.nodes[i].outs, a)}

\* returns [liveness_map, failed]; failed means the function threw
GetLivenessMap(g, always_alive) ==
  LET scanned == LivenessScan(g, LivenessInit, always_alive, 1)
      checked == IF scanned.failed THEN scanned
                 ELSE IF \E v \in DOMAIN scanned.use_chain : v \notin always_alive
                 THEN [scanned EXCEPT !.failed = TRUE]
                 ELSE scanned
      lm == checked.liveness_map
      pairs == SameNodePairs(g, lm)
  IN [liveness_map |->
        [v \in DOMAIN lm |-> lm[v] \cup {w \in DOMAIN lm : <<v, w>> \in pairs}],
      failed |-> checked.failed]

(***************************************************************************)
(* GetMemoryPlanningCandidates                                             *)
(***************************************************************************)
\* all_values: inputs of a node when first seen, then its outputs
RECURSIVE CollectAllValues(_, _)
CollectAllValues(nodes, seen) ==
  IF nodes = <<>> THEN seen
  ELSE CollectAllValues(Tail(nodes),
         ConcatOnce(seen, Head(nodes).ins) \o Head(nodes).outs)

\* the values touched (read or produced) by a node that satisfies / fails
\* canReuseInputsOutputs
TouchedBy(g, reusable) ==
  UNION {Range(g.nodes[i].ins) \cup Range(g.nodes[i].outs) :
           i \in {j \in DOMAIN g.nodes :
                    canReuseInputsOutputs(g.nodes[j]) = reusable}}

\* candidates that one eligible touch suffices for
GetMemoryPlanningCandidates_AnyTouch(g) ==
  LET all_values == CollectAllValues(g.nodes, <<>>)
      first == SelectSeq(all_values, LAMBDA v : v \in TouchedBy(g, TRUE))
  IN <<ConcatOnce(<<>>, first), all_values>>

\* returns <<optimizable, all_values>>
GetMemoryPlanningCandidates(g) ==
  LET all_values == CollectAllValues(g.nodes, <<>>)
      can_reuse == TouchedBy(g, TRUE) \ TouchedBy(g, FALSE)
      first == SelectSeq(all_values, LAMBDA v : v \in can_reuse)
  IN <<ConcatOnce(<<>>, first), all_values>>

(***************************************************************************)
(* GenerateSameStorageValues.  same_storage_values is a function from the  *)
(* keys of the C++ map to the value's cluster (a sequence).                *)
(***************************************************************************)
\* a merge that rewrites the entries of new_v and old_v only
share_storage_fn_TwoEntries(ssv, new_v, old_v) ==
  IF new_v = old_v THEN ssv
  ELSE
    LET values == ConcatOnce(ConcatOnce(<<>>, ssv[old_v]), ssv[new_v])
    IN [x \in DOMAIN ssv |-> IF x \in {new_v, old_v} THEN values ELSE ssv[x]]

share_storage_fn(ssv, new_v, old_v) ==
  IF new_v = old_v THEN ssv
  ELSE
    LET values == ConcatOnce(ConcatOnce(<<>>, ssv[old_v]), ssv[new_v])
    IN [x \in DOMAIN ssv \cup Range(values) |->
          IF x \in Range(values) THEN values ELSE ssv[x]]

\* the loop `for p in same_storage_values` for one v; keys holds the keys
\* still to visit (the C++ iterates an unordered_map: any order gives the
\* same clusters as sets)
RECURSIVE MergeAliases(_, _, _, _)
MergeAliases(g, ssv, v, keys) ==
  IF keys = <<>> THEN ssv
  ELSE MergeAliases(g,
         IF mayAlias(g, Head(keys), v)
         THEN share_storage_fn(ssv, v, Head(keys)) ELSE ssv,
         v, Tail(keys))

\* "initialize with known same_storage_values (aliasing values)", from
\* all_values[k] on
RECURSIVE InitSameStorage(_, _, _, _, _)
InitSameStorage(g, ssv, always_alive, all_values, k) ==
  IF k > Len(all_values) THEN ssv
  ELSE
    LET v == all_values[k]
        s1 == IF v \in DOMAIN ssv THEN ssv ELSE MapPut(ssv, v, <<v>>)
        s2 == IF v \in always_alive THEN s1
              ELSE MergeAliases(g, s1, v, SubSeq(all_values, 1, k))
    IN InitSameStorage(g, s2, always_alive, all_values, k + 1)

\* compute_liveset_fn
compute_liveset_fn(ssv, alive_during, always_alive, v) ==
  UNION {MapGet(alive_during, sv) : sv \in Range(ssv[v])} \cup always_alive

\* intersect_fn
intersect_fn(ssv, live, s) == \E v \in Range(ssv[s]) : v \in live

\* the first s in seen whose cluster does not intersect live (0 if none)
FirstFit(ssv, live, seen) ==
  IF \E i \in DOMAIN seen : ~intersect_fn(ssv, live, seen[i])
  THEN CHOOSE i \in DOMAIN seen :
         /\ ~intersect_fn(ssv, live, seen[i])
         /\ \A j \in 1..(i - 1) : intersect_fn(ssv, live, seen[j])
  ELSE 0

\* the loop over optimizable_values, from optimizable[k] on
RECURSIVE ReuseStorage(_, _, _, _, _, _)
ReuseStorage(ssv, alive_during, always_alive, optimizable, seen, k) ==
  IF k > Len(optimizable) THEN ssv
  ELSE
    LET v == optimizable[k] IN
    IF v \in always_alive
    THEN ReuseStorage(ssv, alive_during, always_alive, optimizable, seen, k + 1)
    ELSE
      LET live == compute_liveset_fn(ssv, alive_during, always_alive, v)
          fit == FirstFit(ssv, live, seen)
          s1 == IF fit = 0 THEN ssv ELSE share_storage_fn(ssv, v, seen[fit])
      IN ReuseStorage(s1, alive_during, always_alive, optimizable,
                      Append(seen, v), k + 1)

GenerateSameStorageValues(g, alive_during, always_alive, optimizable) ==
  ReuseStorage(
    InitSameStorage(g, <<>>, always_alive, optimizable[2], 1),
    alive_during, always_alive, optimizable[1], <<>>, 1)

(***************************************************************************)
(* StaticModule::StaticModule                                              *)
(***************************************************************************)
\* StaticModule::INPUT_VALUE and CONSTANT_VALUE, the sentinel origins of a
\* DefInfo <<origin, index>>
INPUT_VALUE == -1
CONSTANT_VALUE == -2

\* the option checks at the head of the constructor
\* option checks without the check of optimize_memory
OptsAccepted_OutputOnly(o) ==
  o.optimize_graph_output_memory => (o.enable_out_variant /\ o.optimize_memory)

OptsAccepted(o) ==
  /\ o.optimize_graph_output_memory => (o.enable_out_variant /\ o.optimize_memory)
  /\ o.optimize_memory => o.enable_out_variant

IndexOf(s, x) == CHOOSE i \in DOMAIN s : s[i] = x

\* value_to_ssa_def where a node output is filed under the last node's index
ValueToSsaDef_LastNode(g, v) ==
  IF Contains(g.inputs, v) THEN <<INPUT_VALUE, IndexOf(g.inputs, v)>>
  ELSE IF Contains(OutsOf(ConstNodes(g)), v)
  THEN <<CONSTANT_VALUE, IndexOf(OutsOf(ConstNodes(g)), v)>>
  ELSE <<Len(OpNodes(g)), 1>>

\* value_to_ssa_def
ValueToSsaDef(g, v) ==
  IF Contains(g.inputs, v) THEN <<INPUT_VALUE, IndexOf(g.inputs, v)>>
  ELSE IF Contains(OutsOf(ConstNodes(g)), v)
  THEN <<CONSTANT_VALUE, IndexOf(OutsOf(ConstNodes(g)), v)>>
  ELSE LET k == CHOOSE k \in DOMAIN OpNodes(g) : Contains(OpNodes(g)[k].outs, v)
       IN <<k, IndexOf(OpNodes(g)[k].outs, v)>>

\* ProcessedNode::ProcessedNode: which of fn_, native_fn_, op_ is set
Dispatch(n, enable_out_variant) ==
  IF enable_out_variant /\ getOutOfPlaceOperation(n.kind) THEN "fn_"
  ELSE IF getNativeOperation(n.kind) THEN "native_fn_"
  ELSE "op_"

\* the analysis results of the constructor; failed when GetLivenessMap threw
Analyse(g, o) ==
  LET external == GetAlwaysAliveValues(g)
      lm == GetLivenessMap(g, external)
  IN [external_values_ |-> external,
      value_to_same_storage_values_ |->
        IF o.optimize_memory /\ ~lm.failed
        THEN GenerateSameStorageValues(g, lm.liveness_map, external,
                                       GetMemoryPlanningCandidates(g))
        ELSE <<>>,
      failed |-> o.optimize_memory /\ lm.failed]

StaticModule(g, o) ==
  LET a == Analyse(g, o)
  IN [node_inputs_ssa_def_map_ |->
        [k \in DOMAIN OpNodes(g) |->
           [i \in DOMAIN OpNodes(g)[k].ins |->
              ValueToSsaDef(g, OpNodes(g)[k].ins[i])]],
      dispatch |->
        [k \in DOMAIN OpNodes(g) |-> Dispatch(OpNodes(g)[k], o.enable_out_variant)],
      output_ssa_defs_ |->
        [i \in DOMAIN g.outputs |-> ValueToSsaDef(g, g.outputs[i])],
      external_values_ |-> a.external_values_,
      value_to_same_storage_values_ |-> a.value_to_same_storage_values_]

(***************************************************************************)
(* IValues, tensors and memory.                                            *)
(***************************************************************************)
NoStorage == <<"none", 0>>

None == [tag |-> "None", st |-> NoStorage]

Tensor(st) == [tag |-> "Tensor", st |-> st]

NullPtr == <<"null", 0>>
HeapPtr == <<"heap", 0>>
ArenaPtr(offset) == <<"arena", offset>>

\* the bytes of a tensor: the operator that wrote them, applied to what it read
\* (id tells the inputs and the constants apart)
Term(op, id, a, nbytes) == [op |-> op, id |-> id, a |-> a, nbytes |-> nbytes]

Garbage == Term("garbage", 0, <<>>, 0)

ArgStorage(i) == <<"arg", i>>
ConstStorage(i) == <<"const", i>>
NodeStorage(k) == <<"node", k>>

StorageIds(g) ==
  {ArgStorage(i) : i \in DOMAIN g.inputs}
    \cup {ConstStorage(i) : i \in DOMAIN ConstNodes(g)}
    \cup {NodeStorage(k) : k \in DOMAIN OpNodes(g)}

\* the bytes of a constant tensor and of an input tensor of shape s (an
\* empty tensor has no bytes)
ConstTerm(i) == Term("const", i, <<>>, UnitBytes)
ArgTerm(i, s) == IF s = 0 THEN Garbage ELSE Term("arg", i, <<>>, s * UnitBytes)

\* what a read through the storage's data pointer returns
ReadStorage(sts, hp, ar, st) ==
  IF sts[st].ptr = HeapPtr THEN hp[st]
  ELSE IF sts[st].ptr[1] = "arena" /\ sts[st].ptr[2] \in DOMAIN ar
  THEN ar[sts[st].ptr[2]]
  ELSE Garbage

\* the slot a DefInfo resolves to in StaticRuntime::StaticRuntime
SlotValue(ins, consts, outs, def) ==
  IF def[1] = INPUT_VALUE THEN ins[def[2]]
  ELSE IF def[1] = CONSTANT_VALUE THEN consts[def[2]]
  ELSE outs[def[1]][def[2]]

\* the storages some slot of the runtime or the module still refers to
Referenced(ins, consts, outs) ==
  {ins[i].st : i \in DOMAIN ins} \cup {consts[i].st : i \in DOMAIN consts}
    \cup UNION {{outs[k][j].st : j \in DOMAIN outs[k]} : k \in DOMAIN outs}

\* reference counting: a storage no slot refers to is freed
Release(sts, live) ==
  [st \in DOMAIN sts |->
     IF st \in live THEN sts[st] ELSE [ptr |-> NullPtr, nbytes |-> 0]]

ReleaseHeap(hp, sts) ==
  [st \in DOMAIN hp |-> IF sts[st].ptr = HeapPtr THEN hp[st] ELSE Garbage]

(***************************************************************************)
(* The kernels (runtime/static/ops.cpp) and the reference executor.        *)
(***************************************************************************)
RECURSIVE MaxBytes(_)
MaxBytes(terms) ==
  IF terms = <<>> THEN 0 ELSE MaxNat(Head(terms).nbytes, MaxBytes(Tail(terms)))

\* the bytes an operator of this kind computes from the bytes it read: a
\* view returns its first input, every other operator an elementwise result
Compute(kind, read) ==
  IF kind = "view" THEN read[1]
  ELSE IF MaxBytes(read) = 0 THEN Garbage
  ELSE Term(kind, 0, read, MaxBytes(read))

\* a sequential executor that allocates fresh storage for every operator
RECURSIVE RefValue(_, _, _)
RefValue(g, v, shape) ==
  IF Contains(g.inputs, v) THEN ArgTerm(IndexOf(g.inputs, v), shape)
  ELSE IF Contains(OutsOf(ConstNodes(g)), v)
  THEN ConstTerm(IndexOf(OutsOf(ConstNodes(g)), v))
  ELSE LET n == g.nodes[DefPos(g, v)]
       IN Compute(n.kind, [i \in DOMAIN n.ins |-> RefValue(g, n.ins[i], shape)])

RefOutputs(g, shape) == [i \in DOMAIN g.outputs |-> RefValue(g, g.outputs[i], shape)]

(***************************************************************************)
(* MemoryPlanner                                                           *)
(***************************************************************************)
NoPlanner == [exists |-> FALSE, managed_tensors_ |-> <<>>,
              unmanaged_ivalues_ |-> {}, managed_bytes_ |-> 0,
              buffer_ |-> 0, reused_tensors_ |-> 0]

\* the slots <<node, output>> of the runtime's nodes, in node order
RECURSIVE SlotsFrom(_, _)
SlotsFrom(g, k) ==
  IF k > Len(OpNodes(g)) THEN <<>>
  ELSE [j \in DOMAIN OpNodes(g)[k].outs |-> <<k, j>>] \o SlotsFrom(g, k + 1)

SlotValueOf(g, slot) == OpNodes(g)[slot[1]].outs[slot[2]]

\* managed_tensor_values collected without the test of has_out_variant()
ManagedCandidates_AnyDispatch(g, m, enable_out_variant) ==
  IF ~enable_out_variant THEN {}
  ELSE {v \in NodeOuts(g) :
          \E k \in DOMAIN OpNodes(g) :
            /\ Contains(OpNodes(g)[k].outs, v)
            /\ v \notin m.external_values_
            /\ IsTensorKind(OpNodes(g)[k].kind)}

\* managed_tensor_values before the graph outputs are erased
ManagedCandidates(g, m, enable_out_variant) ==
  IF ~enable_out_variant THEN {}
  ELSE {v \in NodeOuts(g) :
          \E k \in DOMAIN OpNodes(g) :
            /\ Contains(OpNodes(g)[k].outs, v)
            /\ m.dispatch[k] = "fn_"
            /\ v \notin m.external_values_
            /\ IsTensorKind(OpNodes(g)[k].kind)}

\* leaked_values
LeakedValues(g, m, enable_out_variant) ==
  IF ~enable_out_variant THEN {}
  ELSE {v \in NodeOuts(g) :
          \E k \in DOMAIN OpNodes(g) :
            /\ Contains(OpNodes(g)[k].outs, v)
            /\ m.dispatch[k] = "fn_"
            /\ v \notin m.external_values_
            /\ ~IsTensorKind(OpNodes(g)[k].kind)
            /\ isOptimizableContainerType(OpNodes(g)[k])}

\* the slots the output pointers of the runtime (outputs_) point to
OutputSlots(m) ==
  {<<m.output_ssa_defs_[i][1], m.output_ssa_defs_[i][2]>> :
     i \in DOMAIN m.output_ssa_defs_}

\* assign_storage_to_managed_tensors, from slots[i] on
RECURSIVE assign_storage_to_managed_tensors(_, _, _, _, _, _)
assign_storage_to_managed_tensors(g, managed, same, slots, idx, mts) ==
  IF slots = <<>> THEN mts
  ELSE
    LET val == SlotValueOf(g, Head(slots)) IN
    IF val \notin managed
    THEN assign_storage_to_managed_tensors(g, managed, same, Tail(slots), idx, mts)
    ELSE IF val \in DOMAIN idx
    THEN assign_storage_to_managed_tensors(g, managed, same, Tail(slots), idx,
           [mts EXCEPT ![idx[val]].tensors = Append(@, Head(slots))])
    ELSE
      LET grown == Append(mts, [size |-> 0, tensors |-> <<Head(slots)>>])
          idx1 == IF val \in DOMAIN same
                  THEN [v \in DOMAIN idx \cup Range(same[val]) |->
                          IF v \in Range(same[val]) THEN Len(grown) ELSE idx[v]]
                  ELSE idx
      IN assign_storage_to_managed_tensors(g, managed, same, Tail(slots), idx1, grown)

\* a planner that does not erase the graph outputs from its two sets
MemoryPlanner_KeepOutputs(g, m, enable_out_variant) ==
  LET candidates == ManagedCandidates(g, m, enable_out_variant)
      leaked == LeakedValues(g, m, enable_out_variant)
  IN [exists |-> TRUE,
      managed_tensors_ |->
        IF enable_out_variant
        THEN assign_storage_to_managed_tensors(
               g, candidates, m.value_to_same_storage_values_, SlotsFrom(g, 1),
               <<>>, <<>>)
        ELSE <<>>,
      unmanaged_ivalues_ |->
        {s \in Range(SlotsFrom(g, 1)) :
           SlotValueOf(g, s) \notin candidates \cup leaked},
      managed_bytes_ |-> 0, buffer_ |-> 0, reused_tensors_ |-> 0]

\* a planner that files the leaked containers under the unmanaged slots
MemoryPlanner_NoLeak(g, m, enable_out_variant) ==
  LET candidates == ManagedCandidates(g, m, enable_out_variant)
      unmanaged == {s \in Range(SlotsFrom(g, 1)) :
                      SlotValueOf(g, s) \notin candidates}
      managed == candidates \ Range(g.outputs)
  IN [exists |-> TRUE,
      managed_tensors_ |->
        IF enable_out_variant
        THEN assign_storage_to_managed_tensors(
               g, managed, m.value_to_same_storage_values_, SlotsFrom(g, 1),
               <<>>, <<>>)
        ELSE <<>>,
      unmanaged_ivalues_ |-> unmanaged \ OutputSlots(m),
      managed_bytes_ |-> 0, buffer_ |-> 0, reused_tensors_ |-> 0]

\* MemoryPlanner::MemoryPlanner
MemoryPlanner(g, m, enable_out_variant) ==
  LET candidates == ManagedCandidates(g, m, enable_out_variant)
      leaked == LeakedValues(g, m, enable_out_variant)
      unmanaged == {s \in Range(SlotsFrom(g, 1)) :
                      SlotValueOf(g, s) \notin candidates \cup leaked}
      managed == candidates \ Range(g.outputs)
  IN [exists |-> TRUE,
      managed_tensors_ |->
        IF enable_out_variant
        THEN assign_storage_to_managed_tensors(
               g, managed, m.value_to_same_storage_values_, SlotsFrom(g, 1),
               <<>>, <<>>)
        ELSE <<>>,
      unmanaged_ivalues_ |-> unmanaged \ OutputSlots(m),
      managed_bytes_ |-> 0, buffer_ |-> 0, reused_tensors_ |-> 0]

\* a rounding that moves an aligned size to the next multiple
compute_aligned_tensor_size_Next(nbytes) ==
  (nbytes \div gAlignment + 1) * gAlignment

\* MemoryPlanner::compute_aligned_tensor_size
compute_aligned_tensor_size(nbytes) ==
  ((nbytes + gAlignment - 1) \div gAlignment) * gAlignment

\* the byte offset of cluster i in the buffer: the running offset of allocate
OffsetOf(mts, i) == SumSeq([j \in 1..(i - 1) |-> mts[j].size])

\* the storage of the tensor a managed-tensor pointer points to
TensorStorage(outs, slot) == outs[slot[1]][slot[2]].st

\* an allocate without the early return on managed_bytes_ = 0
allocate_Always(pl, sts, ar, outs) ==
  [planner |-> [pl EXCEPT !.buffer_ = gAlignment],
   storages |-> sts,
   arena |-> [off \in {0} |-> Garbage],
   allocated |-> TRUE]

\* an allocate whose buffer has one alignment unit, whatever managed_bytes_ is
allocate_Unit(pl, sts, ar, outs) ==
  IF pl.managed_bytes_ = 0
  THEN [planner |-> pl, storages |-> sts, arena |-> ar, allocated |-> FALSE]
  ELSE [planner |-> [pl EXCEPT !.buffer_ = gAlignment],
        storages |-> sts,
        arena |-> [off \in {0} |-> Garbage],
        allocated |-> TRUE]

\* an allocate whose running offset never advances: every cluster is placed
\* at the start of the buffer
allocate_NoAdvance(pl, sts, ar, outs) ==
  IF pl.managed_bytes_ = 0
  THEN [planner |-> pl, storages |-> sts, arena |-> ar, allocated |-> FALSE]
  ELSE
    LET mts == pl.managed_tensors_
        placed == {i \in DOMAIN mts : mts[i].size > 0}
        Binder(st) ==
          LET is == {i \in placed :
                       \E t \in DOMAIN mts[i].tensors :
                         TensorStorage(outs, mts[i].tensors[t]) = st}
          IN IF is = {} THEN 0 ELSE CHOOSE i \in is : \A j \in is : j <= i
    IN [planner |->
          [pl EXCEPT
             !.buffer_ = pl.managed_bytes_,
             !.reused_tensors_ =
               SumSeq([i \in DOMAIN mts |->
                         IF i \in placed THEN Len(mts[i].tensors) - 1 ELSE 0])],
        storages |->
          [st \in DOMAIN sts |->
             IF Binder(st) = 0 THEN sts[st]
             ELSE [ptr |-> ArenaPtr(0), nbytes |-> mts[Binder(st)].size]],
        arena |-> [off \in {0} |-> Garbage],
        allocated |-> TRUE]

\* MemoryPlanner::allocate: [planner, storages, arena, allocated]
allocate(pl, sts, ar, outs) ==
  IF pl.managed_bytes_ = 0
  THEN [planner |-> pl, storages |-> sts, arena |-> ar, allocated |-> FALSE]
  ELSE
    LET mts == pl.managed_tensors_
        placed == {i \in DOMAIN mts : mts[i].size > 0}
        \* the last cluster of the walk that binds storage st (0 if none)
        Binder(st) ==
          LET is == {i \in placed :
                       \E t \in DOMAIN mts[i].tensors :
                         TensorStorage(outs, mts[i].tensors[t]) = st}
          IN IF is = {} THEN 0 ELSE CHOOSE i \in is : \A j \in is : j <= i
    IN [planner |->
          [pl EXCEPT
             !.buffer_ = pl.managed_bytes_,
             !.reused_tensors_ =
               SumSeq([i \in DOMAIN mts |->
                         IF i \in placed THEN Len(mts[i].tensors) - 1 ELSE 0])],
        storages |->
          [st \in DOMAIN sts |->
             IF Binder(st) = 0 THEN sts[st]
             ELSE [ptr |-> ArenaPtr(OffsetOf(mts, Binder(st))),
                   nbytes |-> mts[Binder(st)].size]],
        arena |-> [off \in {OffsetOf(mts, i) : i \in placed} |-> Garbage],
        allocated |-> TRUE]

\* the learned size of cluster ms after this run
LearnedSize(ms, sts, outs) ==
  LET RECURSIVE Learn(_, _)
      Learn(max, t) ==
        IF t > Len(ms.tensors) THEN max
        ELSE Learn(MaxNat(max, compute_aligned_tensor_size(
                                 sts[TensorStorage(outs, ms.tensors[t])].nbytes)),
                   t + 1)
  IN Learn(ms.size, 1)

\* a deallocate that frees the buffer and resets the unmanaged slots but
\* leaves the storages of the managed tensors as they are
deallocate_KeepStorages(pl, sts, hp, outs) ==
  [planner |-> [pl EXCEPT !.buffer_ = 0],
   storages |-> sts,
   heap |-> hp,
   nodeOut |-> [k \in DOMAIN outs |->
                  [j \in DOMAIN outs[k] |->
                     IF <<k, j>> \in pl.unmanaged_ivalues_ THEN None
                     ELSE outs[k][j]]]]

\* a deallocate that resets the storages and the unmanaged slots but records
\* no size
deallocate_NoLearn(pl, sts, hp, outs) ==
  LET mts == pl.managed_tensors_
      reset == UNION {{TensorStorage(outs, mts[i].tensors[t]) :
                        t \in DOMAIN mts[i].tensors} : i \in DOMAIN mts}
      sts1 == [st \in DOMAIN sts |->
                 IF st \in reset THEN [ptr |-> NullPtr, nbytes |-> 0] ELSE sts[st]]
  IN [planner |-> [pl EXCEPT !.buffer_ = 0],
      storages |-> sts1,
      heap |-> ReleaseHeap(hp, sts1),
      nodeOut |-> [k \in DOMAIN outs |->
                     [j \in DOMAIN outs[k] |->
                        IF <<k, j>> \in pl.unmanaged_ivalues_ THEN None
                        ELSE outs[k][j]]]]

\* a deallocate that does not reset managed_bytes_ before it adds the sizes
deallocate_Accumulate(pl, sts, hp, outs) ==
  LET mts == pl.managed_tensors_
      learned == [i \in DOMAIN mts |->
                    [mts[i] EXCEPT !.size = LearnedSize(mts[i], sts, outs)]]
      reset == UNION {{TensorStorage(outs, mts[i].tensors[t]) :
                        t \in DOMAIN mts[i].tensors} : i \in DOMAIN mts}
      sts1 == [st \in DOMAIN sts |->
                 IF st \in reset THEN [ptr |-> NullPtr, nbytes |-> 0] ELSE sts[st]]
      outs1 == [k \in DOMAIN outs |->
                  [j \in DOMAIN outs[k] |->
                     IF <<k, j>> \in pl.unmanaged_ivalues_ THEN None
                     ELSE outs[k][j]]]
  IN [planner |->
        [pl EXCEPT
           !.managed_tensors_ = learned,
           !.managed_bytes_ =
             @ + SumSeq([i \in DOMAIN learned |-> learned[i].size]),
           !.buffer_ = 0],
      storages |-> sts1,
      heap |-> ReleaseHeap(hp, sts1),
      nodeOut |-> outs1]

\* MemoryPlanner::deallocate: [planner, storages, heap, nodeOut]
deallocate(pl, sts, hp, outs) ==
  LET mts == pl.managed_tensors_
      learned == [i \in DOMAIN mts |->
                    [mts[i] EXCEPT !.size = LearnedSize(mts[i], sts, outs)]]
      reset == UNION {{TensorStorage(outs, mts[i].tensors[t]) :
                        t \in DOMAIN mts[i].tensors} : i \in DOMAIN mts}
      sts1 == [st \in DOMAIN sts |->
                 IF st \in reset THEN [ptr |-> NullPtr, nbytes |-> 0] ELSE sts[st]]
      outs1 == [k \in DOMAIN outs |->
                  [j \in DOMAIN outs[k] |->
                     IF <<k, j>> \in pl.unmanaged_ivalues_ THEN None
                     ELSE outs[k][j]]]
  IN [planner |->
        [pl EXCEPT
           !.managed_tensors_ = learned,
           !.managed_bytes_ = SumSeq([i \in DOMAIN learned |-> learned[i].size]),
           !.buffer_ = 0],
      storages |-> sts1,
      heap |-> ReleaseHeap(hp, sts1),
      nodeOut |-> outs1]

(***************************************************************************)
(* The graphs and options a behaviour starts from.                         *)
(***************************************************************************)
\* the operators a node may be: add, add whose schema says the output may
\* alias the first input, a view of the first input, a boxed operator
OpKinds ==
  {[kind |-> "add", ann |-> {}], [kind |-> "add", ann |-> {1}],
   [kind |-> "view", ann |-> {1}], [kind |-> "op", ann |-> {}]}

VName == <<"v1", "v2", "v3", "v4">>

Wiring(inputs, consts, wires, outputs) ==
  [inputs |-> inputs, consts |-> consts, wires |-> wires, outputs |-> outputs]

\* the dataflow shapes: identity, input passthrough, constant, two-step,
\* escaping output, diamond, chain, and graphs that mix inputs, constants
\* and node outputs among their outputs
Wirings ==
  {Wiring(<<"x">>, <<>>, <<>>, <<"x">>),
   Wiring(<<"x", "y">>, <<>>, <<>>, <<"y", "x">>),
   Wiring(<<>>, <<"c">>, <<>>, <<"c">>),
   Wiring(<<"x">>, <<>>, <<<<"x", "x">>, <<"v1", "v1">>>>, <<"v2">>),
   Wiring(<<"x">>, <<>>, <<<<"x">>, <<"v1", "v1">>>>, <<"v1", "v2">>),
   Wiring(<<"x">>, <<>>, <<<<"x">>, <<"v1">>, <<"v1", "v2">>>>, <<"v3">>),
   Wiring(<<"x">>, <<>>, <<<<"x">>, <<"v1">>, <<"v2">>, <<"v3">>>>, <<"v4">>),
   Wiring(<<"x">>, <<"c">>, <<<<"x", "c">>>>, <<"v1", "x">>),
   Wiring(<<"x">>, <<"c">>, <<<<"c">>>>, <<"c", "v1">>)}

MkGraph(w, kinds) ==
  [inputs |-> w.inputs,
   nodes |-> [i \in DOMAIN w.consts |-> ConstNode(w.consts[i])]
               \o [k \in DOMAIN w.wires |->
                     OpNode(kinds[k].kind, w.wires[k], VName[k], kinds[k].ann)],
   outputs |-> w.outputs]

Graphs ==
  UNION {{MkGraph(w, kinds) : kinds \in [DOMAIN w.wires -> OpKinds]} :
           w \in Wirings}

Options ==
  {o \in [cleanup_activations : BOOLEAN, enable_out_variant : BOOLEAN,
          optimize_memory : BOOLEAN, optimize_graph_output_memory : BOOLEAN] :
     OptsAccepted(o)}

NoRet == [status |-> "none", args |-> 0, values |-> <<>>]

\* the state after StaticModule and StaticRuntime construction
Init ==
  /\ graph \in Graphs
  /\ opts \in Options
  /\ ~Analyse(graph, opts).failed
  /\ constants_ = [i \in DOMAIN ConstNodes(graph) |-> Tensor(ConstStorage(i))]
  /\ sm = StaticModule(graph, opts)
  /\ inputs_ = [i \in DOMAIN graph.inputs |-> None]
  /\ nodeOut = [k \in DOMAIN OpNodes(graph) |->
                  [j \in DOMAIN OpNodes(graph)[k].outs |-> None]]
  /\ storages = [st \in StorageIds(graph) |->
                   IF st[1] = "const" THEN [ptr |-> HeapPtr, nbytes |-> UnitBytes]
                   ELSE [ptr |-> NullPtr, nbytes |-> 0]]
  /\ heap = [st \in StorageIds(graph) |->
               IF st[1] = "const" THEN ConstTerm(st[2]) ELSE Garbage]
  /\ arena = <<>>
  /\ planner = NoPlanner
  /\ pc = "idle"
  /\ cur = 0
  /\ args = 0
  /\ ret = NoRet
  /\ prevRet = NoRet
  /\ trace = <<>>
  /\ stats = [runs |-> 0, planners |-> 0, buffers |-> 0]
  /\ corrupt = FALSE

(***************************************************************************)
(* StaticRuntime::operator()                                               *)
(***************************************************************************)
Step(name, node) == [step |-> name, node |-> node]

NumNodes == Len(OpNodes(graph))

\* a node loop that stops one node early
AfterNode_SkipLast(k) ==
  IF k + 1 < NumNodes THEN "run"
  ELSE IF ~opts.cleanup_activations THEN "return"
  ELSE IF ~planner.exists THEN "create_planner"
  ELSE "deallocate"

\* a runtime that builds a planner at the end of every invoke
AfterNode_Replan(k) ==
  IF k < NumNodes THEN "run"
  ELSE IF ~opts.cleanup_activations THEN "return"
  ELSE "create_planner"

\* where the node loop goes once node k has run
\* a runtime that plans and cleans up whatever cleanup_activations says
AfterNode_AlwaysCleanup(k) ==
  IF k < NumNodes THEN "run"
  ELSE IF ~planner.exists THEN "create_planner"
  ELSE "deallocate"

AfterNode(k) ==
  IF k < NumNodes THEN "run"
  ELSE IF ~opts.cleanup_activations THEN "return"
  ELSE IF ~planner.exists THEN "create_planner"
  ELSE "deallocate"

\* `if (planner_) planner_->allocate();` at the head of an invoke with
\* inputs of the given shape
InvokeAllocate(shape) ==
  /\ pc = "idle"
  /\ stats.runs < MaxRuns
  /\ LET a == allocate(planner, storages, arena, nodeOut) IN
       /\ planner' = IF planner.exists THEN a.planner ELSE planner
       /\ storages' = IF planner.exists THEN a.storages ELSE storages
       /\ arena' = IF planner.exists THEN a.arena ELSE arena
       /\ stats' = IF planner.exists /\ a.allocated
                   THEN [stats EXCEPT !.buffers = @ + 1] ELSE stats
       /\ trace' = IF planner.exists THEN <<Step("allocate", 0)>> ELSE <<>>
  /\ args' = shape
  /\ pc' = "set_inputs"
  /\ corrupt' = FALSE
  /\ UNCHANGED <<graph, opts, constants_, sm, inputs_, nodeOut, heap, cur, ret,
                 prevRet>>

\* StaticRuntime::set_inputs, positional arguments
SetInputs ==
  /\ pc = "set_inputs"
  /\ inputs_' = [i \in DOMAIN inputs_ |-> Tensor(ArgStorage(i))]
  /\ storages' = [st \in DOMAIN storages |->
                    IF st[1] = "arg"
                    THEN [ptr |-> HeapPtr, nbytes |-> args * UnitBytes]
                    ELSE storages[st]]
  /\ heap' = [st \in DOMAIN heap |->
                IF st[1] = "arg" THEN ArgTerm(st[2], args) ELSE heap[st]]
  /\ trace' = Append(trace, Step("set_inputs", 0))
  /\ cur' = 1
  /\ pc' = AfterNode(0)
  /\ UNCHANGED <<graph, opts, constants_, sm, nodeOut, arena, planner, args, ret,
                 prevRet, stats, corrupt>>

\* the IValues the input pointers of node k point to
NodeInputs(k) ==
  [i \in DOMAIN sm.node_inputs_ssa_def_map_[k] |->
     SlotValue(inputs_, constants_, nodeOut, sm.node_inputs_ssa_def_map_[k][i])]

\* the bytes node k reads through its inputs
NodeReads(k) ==
  [i \in DOMAIN NodeInputs(k) |->
     ReadStorage(storages, heap, arena, NodeInputs(k)[i].st)]

\* the StorageImpl an out variant writes to: it keeps the data pointer when
\* nbytes suffices and otherwise takes a heap block of the needed size
ResizeStorage(base, need) ==
  IF base.nbytes >= need THEN base ELSE [ptr |-> HeapPtr, nbytes |-> need]

\* memory after `result` is written through storage st
WriteHeap(hp, sts, st, result) ==
  IF sts[st].ptr = HeapPtr THEN [hp EXCEPT ![st] = result] ELSE hp

WriteArena(ar, sts, st, result) ==
  IF sts[st].ptr[1] = "arena" /\ sts[st].ptr[2] \in DOMAIN ar
  THEN [ar EXCEPT ![sts[st].ptr[2]] = result] ELSE ar

\* ProcessedNode::run of node cur
RunNode ==
  /\ pc = "run"
  /\ \A i \in DOMAIN NodeInputs(cur) : NodeInputs(cur)[i].tag = "Tensor"
  /\ LET k == cur
         n == OpNodes(graph)[k]
         read == NodeReads(k)
         result == Compute(n.kind, read)
         st == NodeStorage(k)
         base == IF nodeOut[k][1].tag = "Tensor" THEN storages[st]
                 ELSE [ptr |-> NullPtr, nbytes |-> 0]
         sts1 == IF sm.dispatch[k] = "fn_"
                 THEN [storages EXCEPT ![st] = ResizeStorage(base, result.nbytes)]
                 ELSE IF sm.dispatch[k] = "op_"
                 THEN [storages EXCEPT
                         ![st] = [ptr |-> HeapPtr, nbytes |-> result.nbytes]]
                 ELSE storages
     IN /\ corrupt' = (corrupt \/
                        \E i \in DOMAIN read :
                          read[i] # RefValue(graph, n.ins[i], args))
        /\ storages' = sts1
        /\ heap' = IF sm.dispatch[k] = "native_fn_" THEN heap
                   ELSE WriteHeap(heap, sts1, st, result)
        /\ arena' = IF sm.dispatch[k] = "fn_"
                    THEN WriteArena(arena, sts1, st, result) ELSE arena
        /\ nodeOut' = [nodeOut EXCEPT
                         ![k][1] = IF sm.dispatch[k] = "native_fn_"
                                   THEN Tensor(NodeInputs(k)[1].st)
                                   ELSE Tensor(st)]
        /\ trace' = Append(trace, Step("run", k))
        /\ cur' = k + 1
        /\ pc' = AfterNode(k)
  /\ UNCHANGED <<graph, opts, constants_, sm, inputs_, planner, args, ret,
                 prevRet, stats>>

\* a kernel throws (toTensor() on an IValue that is none): the exception
\* leaves operator() at once
KernelThrows ==
  /\ pc = "run"
  /\ \E i \in DOMAIN NodeInputs(cur) : NodeInputs(cur)[i].tag # "Tensor"
  /\ ret' = [status |-> "error", args |-> args, values |-> <<>>]
  /\ prevRet' = ret
  /\ stats' = [stats EXCEPT !.runs = @ + 1]
  /\ pc' = "idle"
  /\ UNCHANGED <<graph, opts, constants_, sm, inputs_, nodeOut, storages, heap,
                 arena, planner, cur, args, trace, corrupt>>

\* planner_ = std::make_unique<MemoryPlanner>(...)
CreatePlanner ==
  /\ pc = "create_planner"
  /\ planner' = MemoryPlanner(graph, sm, opts.enable_out_variant)
  /\ stats' = [stats EXCEPT !.planners = @ + 1]
  /\ trace' = Append(trace, Step("create_planner", 0))
  /\ pc' = "deallocate"
  /\ UNCHANGED <<graph, opts, constants_, sm, inputs_, nodeOut, storages, heap,
                 arena, cur, args, ret, prevRet, corrupt>>

\* planner_->deallocate()
Deallocate ==
  /\ pc = "deallocate"
  /\ LET d == deallocate(planner, storages, heap, nodeOut)
         sts1 == Release(d.storages, Referenced(inputs_, constants_, d.nodeOut))
     IN /\ planner' = d.planner
        /\ nodeOut' = d.nodeOut
        /\ storages' = sts1
        /\ heap' = ReleaseHeap(d.heap, sts1)
  /\ arena' = <<>>
  /\ trace' = Append(trace, Step("deallocate", 0))
  /\ pc' = "clean_inputs"
  /\ UNCHANGED <<graph, opts, constants_, sm, inputs_, cur, args, ret, prevRet,
                 stats, corrupt>>

\* StaticRuntime::clean_up_input_ivalues
clean_up_input_ivalues(ins) == [i \in DOMAIN ins |-> None]

CleanUpInputs ==
  /\ pc = "clean_inputs"
  /\ inputs_' = clean_up_input_ivalues(inputs_)
  /\ LET sts1 == Release(storages, Referenced(inputs_', constants_, nodeOut))
     IN /\ storages' = sts1
        /\ heap' = ReleaseHeap(heap, sts1)
  /\ trace' = Append(trace, Step("clean_inputs", 0))
  /\ pc' = "return"
  /\ UNCHANGED <<graph, opts, constants_, sm, nodeOut, arena, planner, cur, args,
                 ret, prevRet, stats, corrupt>>

\* what the caller receives for output i: std::move(*outputs_[i]) leaves
\* none behind, so a slot named twice yields none the second time
Returned(i) ==
  LET def == sm.output_ssa_defs_[i]
      iv == SlotValue(inputs_, constants_, nodeOut, def)
  IN IF iv.tag # "Tensor" \/ \E j \in 1..(i - 1) : sm.output_ssa_defs_[j] = def
     THEN [tag |-> "None", bytes |-> Garbage]
     ELSE [tag |-> "Tensor", bytes |-> ReadStorage(storages, heap, arena, iv.st)]

\* the slots after every output has been moved out of them
MovedOut(slots, origin) ==
  [i \in DOMAIN slots |->
     IF <<origin, i>> \in OutputSlots(sm) THEN None ELSE slots[i]]

\* the outputs are moved into the return value
ReturnOutputs ==
  /\ pc = "return"
  /\ ret' = [status |-> "ok", args |-> args,
             values |-> [i \in DOMAIN sm.output_ssa_defs_ |-> Returned(i)]]
  /\ prevRet' = ret
  /\ inputs_' = MovedOut(inputs_, INPUT_VALUE)
  /\ constants_' = MovedOut(constants_, CONSTANT_VALUE)
  /\ nodeOut' = [k \in DOMAIN nodeOut |-> MovedOut(nodeOut[k], k)]
  /\ LET sts1 == Release(storages, Referenced(inputs_', constants_', nodeOut'))
     IN /\ storages' = sts1
        /\ heap' = ReleaseHeap(heap, sts1)
  /\ stats' = [stats EXCEPT !.runs = @ + 1]
  /\ trace' = Append(trace, Step("return", 0))
  /\ pc' = "idle"
  /\ UNCHANGED <<graph, opts, sm, arena, planner, cur, args, corrupt>>

Next ==
  \/ \E shape \in 1..MaxShape : InvokeAllocate(shape)
  \/ SetInputs
  \/ RunNode
  \/ KernelThrows
  \/ CreatePlanner
  \/ Deallocate
  \/ CleanUpInputs
  \/ ReturnOutputs

Spec == Init /\ [][Next]_vars

(***************************************************************************)
(* Properties.                                                             *)
(***************************************************************************)
IsPrefix(s, t) == Len(s) <= Len(t) /\ SubSeq(t, 1, Len(s)) = s

\* the steps of a complete invoke: with or without allocate at its head,
\* with or without the construction of the planner after the node loop
ExpectedSteps(alloc, create) ==
  (IF alloc THEN <<Step("allocate", 0)>> ELSE <<>>)
    \o <<Step("set_inputs", 0)>>
    \o [k \in 1..NumNodes |-> Step("run", k)]
    \o (IF opts.cleanup_activations
        THEN (IF create THEN <<Step("create_planner", 0)>> ELSE <<>>)
               \o <<Step("deallocate", 0), Step("clean_inputs", 0)>>
        ELSE <<>>)
    \o <<Step("return", 0)>>

Finished == pc = "idle" /\ ret.status = "ok"

\* C1: the steps of an invoke always form a prefix of: allocate (only when
\* the planner already exists), set_inputs, every node once in node-vector
\* order, then (only with cleanup_activations) deallocate and the clearing
\* of the inputs, then the extraction of the outputs; a finished invoke has
\* taken all of them.
C1_StepOrder ==
  \E alloc, create \in BOOLEAN :
    /\ ~(alloc /\ create)
    /\ alloc => planner.exists
    /\ IsPrefix(trace, ExpectedSteps(alloc, create))
    /\ Finished =>
         /\ trace = ExpectedSteps(alloc, create)
         /\ alloc = (planner.exists /\ ~create)

C1_Witness ==
  /\ Finished
  /\ stats.runs >= 2
  /\ NumNodes >= 3
  /\ trace[1] = Step("allocate", 0)

\* an output of the graph that a node produces, and what was returned for it
NodeOutputsCorrect ==
  \A i \in DOMAIN ret.values :
    sm.output_ssa_defs_[i][1] > 0 =>
      ret.values[i] = [tag |-> "Tensor", bytes |-> RefOutputs(graph, args)[i]]

\* C2: storage sharing never corrupts a value: every node reads through
\* each input the bytes its producer wrote (no tensor of the same cluster
\* was written in between), and the outputs the nodes produce equal those
\* of the sequential executor that allocates fresh storage per operator.
C2_NoCorruption == ~corrupt /\ (Finished => NodeOutputsCorrect)

\* C3: two consecutive invokes with the same arguments return equal
\* outputs.
C3_RepeatEqual ==
  (Finished /\ prevRet.status = "ok" /\ prevRet.args = ret.args)
    => ret.values = prevRet.values

\* the node-output slots of the graph outputs
NodeOutputSlots == {s \in OutputSlots(sm) : s[1] > 0}

\* the slots of the planner's managed tensors
ManagedSlots ==
  UNION {Range(planner.managed_tensors_[i].tensors) :
           i \in DOMAIN planner.managed_tensors_}

ManagedValues ==
  ManagedCandidates(graph, sm, opts.enable_out_variant) \ Range(graph.outputs)

UnmanagedSlots ==
  {s \in Range(SlotsFrom(graph, 1)) :
     /\ SlotValueOf(graph, s) \notin ManagedValues
     /\ SlotValueOf(graph, s) \notin LeakedValues(graph, sm, opts.enable_out_variant)
     /\ s \notin OutputSlots(sm)}

\* C5: once an invoke with cleanup_activations is past deallocate and the
\* clearing of the inputs, every input slot is none, every unmanaged
\* node-output slot is none, and every managed tensor is still a tensor
\* whose storage has a null data pointer.
C5_AfterCleanup ==
  (opts.cleanup_activations /\ pc = "return") =>
    /\ \A i \in DOMAIN inputs_ : inputs_[i] = None
    /\ \A s \in UnmanagedSlots : nodeOut[s[1]][s[2]] = None
    /\ \A s \in Range(SlotsFrom(graph, 1)) :
         SlotValueOf(graph, s) \in ManagedValues =>
           /\ nodeOut[s[1]][s[2]].tag = "Tensor"
           /\ storages[nodeOut[s[1]][s[2]].st] = [ptr |-> NullPtr, nbytes |-> 0]

C5_Witness ==
  /\ opts.cleanup_activations
  /\ pc = "return"
  /\ stats.runs >= 1
  /\ ManagedValues # {}
  /\ UnmanagedSlots # {}
  /\ inputs_ # <<>>

OnlyConstant ==
  /\ OpNodes(graph) = <<>>
  /\ Len(ConstNodes(graph)) = 1
  /\ graph.outputs = ConstNodes(graph)[1].outs

\* C6: for a graph whose only node is a constant and whose output is that
\* constant, each invoke returns the constant's value.
C6_ConstantReturned ==
  (OnlyConstant /\ Finished) =>
    ret.values = <<[tag |-> "Tensor", bytes |-> ConstTerm(1)]>>

\* C7: no invoke modifies the constants pool: every constant cell holds
\* the tensor it held when the StaticModule was constructed, with its bytes.
C7_ConstantsUnchanged ==
  \A i \in DOMAIN constants_ :
    /\ constants_[i] = Tensor(ConstStorage(i))
    /\ ReadStorage(storages, heap, arena, ConstStorage(i)) = ConstTerm(i)

\* C8: an output that is also a graph input is returned unchanged, for
\* every option combination, and its storage never is in the buffer.
C8_InputReturned ==
  /\ Finished =>
       \A i \in DOMAIN ret.values :
         sm.output_ssa_defs_[i][1] = INPUT_VALUE =>
           ret.values[i] =
             [tag |-> "Tensor", bytes |-> ArgTerm(sm.output_ssa_defs_[i][2], args)]
  /\ \A i \in DOMAIN inputs_ :
       inputs_[i].tag = "Tensor" => storages[inputs_[i].st].ptr[1] # "arena"

NoIntermediates ==
  /\ OpNodes(graph) = <<>>
  /\ \A i \in DOMAIN graph.outputs : Contains(graph.inputs, graph.outputs[i])

\* C9: for a graph with no intermediate tensors (every output is a graph
\* input), managed_tensors is empty, managed_bytes is 0 and no buffer is
\* ever allocated, in any run.
C9_NothingManaged ==
  NoIntermediates =>
    /\ planner.managed_tensors_ = <<>>
    /\ planner.managed_bytes_ = 0
    /\ planner.buffer_ = 0
    /\ arena = <<>>
    /\ stats.buffers = 0

C9_Witness ==
  /\ NoIntermediates
  /\ planner.exists
  /\ stats.runs >= 2
  /\ pc = "set_inputs"
  /\ trace = <<Step("allocate", 0)>>

\* C10: during the first invoke no planner exists before the node loop has
\* ended and allocate is not called; with cleanup_activations the planner
\* is constructed once, after the last node of the first invoke, and every
\* later invoke starts with allocate on that same planner; without
\* cleanup_activations no planner is constructed.
C10_PlannerLifecycle ==
  /\ stats.planners = (IF planner.exists THEN 1 ELSE 0)
  /\ planner.exists =
       (opts.cleanup_activations /\
          (stats.runs >= 1 \/ pc \in {"deallocate", "clean_inputs", "return"}))
  /\ stats.runs = 0 =>
       /\ ~Contains(trace, Step("allocate", 0))
       /\ stats.buffers = 0
       /\ arena = <<>>
       /\ Contains(trace, Step("create_planner", 0)) =>
            IsPrefix([k \in 1..NumNodes |-> Step("run", k)], Tail(trace))
  /\ (stats.runs >= 1 /\ pc # "idle") =>
       /\ IsPrefix(<<Step("allocate", 0)>>, trace) <=> opts.cleanup_activations
       /\ ~Contains(trace, Step("create_planner", 0))
  /\ planner.exists =>
       LET built == MemoryPlanner(graph, sm, opts.enable_out_variant)
       IN /\ planner.unmanaged_ivalues_ = built.unmanaged_ivalues_
          /\ [i \in DOMAIN planner.managed_tensors_ |->
                planner.managed_tensors_[i].tensors]
               = [i \in DOMAIN built.managed_tensors_ |->
                    built.managed_tensors_[i].tensors]

C10_Witness ==
  /\ opts.cleanup_activations
  /\ stats.runs = 2
  /\ pc = "run"
  /\ planner.managed_bytes_ > 0

(***************************************************************************)
(* The memory analysis of StaticModule::StaticModule, step by step: the    *)
(* runtime does not exist yet; sm holds the analysis results and the       *)
(* locals of GenerateSameStorageValues (same_storage_values, seen, the     *)
(* loop positions k and j).                                                *)
(***************************************************************************)
AnalysisKinds ==
  OpKinds \cup {[kind |-> "add", ann |-> {2}], [kind |-> "add", ann |-> {1, 2}]}

\* fan-in, diamond, a constant operand, chain, two outputs, a constant
\* output, a value read twice by one node
AnalysisWirings ==
  {Wiring(<<"x">>, <<>>, <<<<"x">>, <<"x">>, <<"v1", "v2">>, <<"v3">>>>, <<"v4">>),
   Wiring(<<"x">>, <<>>, <<<<"x">>, <<"v1">>, <<"v1", "v2">>>>, <<"v3">>),
   Wiring(<<"x">>, <<"c">>, <<<<"x", "c">>, <<"v1">>, <<"v2">>>>, <<"v3">>),
   Wiring(<<"x">>, <<>>, <<<<"x">>, <<"v1">>, <<"v2">>, <<"v3">>>>, <<"v4">>),
   Wiring(<<"x">>, <<>>, <<<<"x">>, <<"v1", "x">>, <<"v2">>>>, <<"v1", "v3">>),
   Wiring(<<"x">>, <<"c">>, <<<<"c">>, <<"v1">>>>, <<"c", "v2">>),
   Wiring(<<"x">>, <<>>, <<<<"x", "x">>, <<"v1", "v1">>>>, <<"v2">>)}

AnalysisGraphs ==
  UNION {{MkGraph(w, kinds) :
            kinds \in {f \in [DOMAIN w.wires -> AnalysisKinds] :
                         \A k \in DOMAIN w.wires : f[k].ann \subseteq DOMAIN w.wires[k]}} :
           w \in AnalysisWirings}

NoAnalysis ==
  [external_values_ |-> {}, alive_during |-> <<>>, optimizable |-> <<>>,
   all_values |-> <<>>, same_storage_values |-> <<>>, seen |-> <<>>,
   k |-> 0, j |-> 0]

InitAnalysis ==
  /\ graph \in AnalysisGraphs
  /\ opts \in {o \in Options : o.optimize_memory}
  /\ sm = NoAnalysis
  /\ pc = "construct"
  /\ constants_ = <<>>
  /\ inputs_ = <<>>
  /\ nodeOut = <<>>
  /\ storages = <<>>
  /\ heap = <<>>
  /\ arena = <<>>
  /\ planner = NoPlanner
  /\ cur = 0
  /\ args = 0
  /\ ret = NoRet
  /\ prevRet = NoRet
  /\ trace = <<>>
  /\ stats = [runs |-> 0, planners |-> 0, buffers |-> 0]
  /\ corrupt = FALSE

RuntimeUntouched ==
  UNCHANGED <<graph, opts, constants_, inputs_, nodeOut, storages, heap, arena,
              planner, cur, args, ret, prevRet, trace, stats, corrupt>>

\* GetAlwaysAliveValues, GetLivenessMap and GetMemoryPlanningCandidates
AnalyseGraph ==
  /\ pc = "construct"
  /\ LET external == GetAlwaysAliveValues(graph)
         lm == GetLivenessMap(graph, external)
         values == GetMemoryPlanningCandidates(graph)
     IN IF lm.failed
        THEN /\ sm' = [sm EXCEPT !.external_values_ = external]
             /\ pc' = "failed"
        ELSE /\ sm' = [sm EXCEPT !.external_values_ = external,
                                 !.alive_during = lm.liveness_map,
                                 !.optimizable = values[1],
                                 !.all_values = values[2],
                                 !.k = 1]
             /\ pc' = IF values[2] = <<>> THEN "reuse" ELSE "init_values"
  /\ RuntimeUntouched

\* the phase after value k of all_values is done
AfterValue == IF sm.k = Len(sm.all_values) THEN "reuse" ELSE "init_values"

\* an initialisation loop that visits the keys for always-alive values too
InitValue_NoSkip ==
  /\ pc = "init_values"
  /\ sm.j = 0
  /\ LET v == sm.all_values[sm.k]
         s1 == IF v \in DOMAIN sm.same_storage_values THEN sm.same_storage_values
               ELSE MapPut(sm.same_storage_values, v, <<v>>)
     IN /\ sm' = [sm EXCEPT !.same_storage_values = s1, !.j = 1]
        /\ pc' = "init_values"
  /\ RuntimeUntouched

\* head of an iteration of the initialisation loop: v gets its own cluster
\* and, unless it is always alive, the keys of the map are visited
InitValue ==
  /\ pc = "init_values"
  /\ sm.j = 0
  /\ LET v == sm.all_values[sm.k]
         s1 == IF v \in DOMAIN sm.same_storage_values THEN sm.same_storage_values
               ELSE MapPut(sm.same_storage_values, v, <<v>>)
     IN IF v \in sm.external_values_
        THEN /\ sm' = [sm EXCEPT !.same_storage_values = s1,
                                 !.k = IF AfterValue = "reuse" THEN 1 ELSE @ + 1]
             /\ pc' = AfterValue
        ELSE /\ sm' = [sm EXCEPT !.same_storage_values = s1, !.j = 1]
             /\ pc' = "init_values"
  /\ RuntimeUntouched

\* one visit of the inner loop: the key all_values[j] against v
MergeAlias ==
  /\ pc = "init_values"
  /\ sm.j >= 1
  /\ LET v == sm.all_values[sm.k]
         key == sm.all_values[sm.j]
         s1 == IF mayAlias(graph, key, v)
               THEN share_storage_fn(sm.same_storage_values, v, key)
               ELSE sm.same_storage_values
     IN IF sm.j < sm.k
        THEN /\ sm' = [sm EXCEPT !.same_storage_values = s1, !.j = @ + 1]
             /\ pc' = "init_values"
        ELSE /\ sm' = [sm EXCEPT !.same_storage_values = s1, !.j = 0,
                                 !.k = IF AfterValue = "reuse" THEN 1 ELSE @ + 1]
             /\ pc' = AfterValue
  /\ RuntimeUntouched

\* an iteration of the reuse loop that does not skip always-alive values
ReuseValue_NoSkip ==
  /\ pc = "reuse"
  /\ sm.k <= Len(sm.optimizable)
  /\ LET v == sm.optimizable[sm.k]
         live == compute_liveset_fn(sm.same_storage_values, sm.alive_during,
                                    sm.external_values_, v)
         fit == FirstFit(sm.same_storage_values, live, sm.seen)
     IN sm' = [sm EXCEPT
                 !.same_storage_values =
                   IF fit = 0 THEN @
                   ELSE share_storage_fn(@, v, sm.seen[fit]),
                 !.seen = Append(@, v),
                 !.k = @ + 1]
  /\ pc' = "reuse"
  /\ RuntimeUntouched

\* one iteration of the loop over optimizable_values
ReuseValue ==
  /\ pc = "reuse"
  /\ sm.k <= Len(sm.optimizable)
  /\ LET v == sm.optimizable[sm.k] IN
       IF v \in sm.external_values_
       THEN sm' = [sm EXCEPT !.k = @ + 1]
       ELSE LET live == compute_liveset_fn(sm.same_storage_values, sm.alive_during,
                                           sm.external_values_, v)
                fit == FirstFit(sm.same_storage_values, live, sm.seen)
            IN sm' = [sm EXCEPT
                        !.same_storage_values =
                          IF fit = 0 THEN @
                          ELSE share_storage_fn(@, v, sm.seen[fit]),
                        !.seen = Append(@, v),
                        !.k = @ + 1]
  /\ pc' = "reuse"
  /\ RuntimeUntouched

\* return same_storage_values
FinishAnalysis ==
  /\ pc = "reuse"
  /\ sm.k > Len(sm.optimizable)
  /\ pc' = "done"
  /\ UNCHANGED sm
  /\ RuntimeUntouched

NextAnalysis ==
  \/ AnalyseGraph
  \/ InitValue
  \/ MergeAlias
  \/ ReuseValue
  \/ FinishAnalysis

SpecAnalysis == InitAnalysis /\ [][NextAnalysis]_vars

(***************************************************************************)
(* Construction of a StaticModule from any graph and any options.          *)
(***************************************************************************)
ConstructKinds ==
  {[kind |-> "add", ann |-> {}], [kind |-> "op", ann |-> {}],
   [kind |-> "view", ann |-> {1}], [kind |-> "prim::TupleConstruct", ann |-> {}],
   [kind |-> "prim::CallMethod", ann |-> {}]}

ConstructWirings ==
  {Wiring(<<"x">>, <<>>, <<<<"x">>>>, <<"v1">>),
   Wiring(<<"x">>, <<"c">>, <<<<"x", "c">>, <<"v1">>>>, <<"v2">>)}

WithBlocks(n, b) ==
  [kind |-> n.kind, ins |-> n.ins, outs |-> n.outs, ann |-> n.ann, blocks |-> b]

\* graphs before the support check: any operator node may carry a sub-block
ConstructGraphs ==
  UNION {{[inputs |-> w.inputs,
           nodes |-> [i \in DOMAIN w.consts |-> WithBlocks(ConstNode(w.consts[i]), 0)]
                       \o [k \in DOMAIN w.wires |->
                             WithBlocks(OpNode(kinds[k].kind, w.wires[k], VName[k],
                                               kinds[k].ann), blocks[k])],
           outputs |-> w.outputs] :
            kinds \in [DOMAIN w.wires -> ConstructKinds],
            blocks \in [DOMAIN w.wires -> {0, 1}]} :
           w \in ConstructWirings}

AllOptions ==
  [cleanup_activations : BOOLEAN, enable_out_variant : BOOLEAN,
   optimize_memory : BOOLEAN, optimize_graph_output_memory : BOOLEAN]

NoModule == <<>>

InitConstruct ==
  /\ graph \in ConstructGraphs
  /\ opts \in AllOptions
  /\ sm = NoModule
  /\ pc = "construct"
  /\ constants_ = <<>>
  /\ inputs_ = <<>>
  /\ nodeOut = <<>>
  /\ storages = <<>>
  /\ heap = <<>>
  /\ arena = <<>>
  /\ planner = NoPlanner
  /\ cur = 0
  /\ args = 0
  /\ ret = NoRet
  /\ prevRet = NoRet
  /\ trace = <<>>
  /\ stats = [runs |-> 0, planners |-> 0, buffers |-> 0]
  /\ corrupt = FALSE

\* a TORCH_CHECK of the constructor failed
Throw(what) ==
  /\ pc' = "failed"
  /\ ret' = [NoRet EXCEPT !.status = what]

NoRuntimeYet ==
  UNCHANGED <<graph, opts, inputs_, nodeOut, storages, heap, arena, planner,
              cur, args, prevRet, trace, stats, corrupt>>

\* TORCH_CHECK(canEnableStaticRuntime(graph)); the passes of OptimizeGraph
\* are not modelled, the graphs are taken as the passes leave them
PrepareGraphForStaticModule ==
  /\ pc = "construct"
  /\ IF canEnableStaticRuntime(graph)
     THEN pc' = "check_opts" /\ UNCHANGED ret
     ELSE Throw("UnsupportedGraph")
  /\ UNCHANGED <<sm, constants_>>
  /\ NoRuntimeYet

\* the two option checks at the head of the constructor's body
CheckOptFlags ==
  /\ pc = "check_opts"
  /\ IF OptsAccepted(opts)
     THEN pc' = "analyse" /\ UNCHANGED ret
     ELSE Throw("InvalidOptions")
  /\ UNCHANGED <<sm, constants_>>
  /\ NoRuntimeYet

\* the rest of the constructor: constants, wiring, analyses
BuildModule ==
  /\ pc = "analyse"
  /\ IF Analyse(graph, opts).failed
     THEN /\ Throw("LivenessError")
          /\ UNCHANGED <<sm, constants_>>
     ELSE /\ sm' = StaticModule(graph, opts)
          /\ constants_' = [i \in DOMAIN ConstNodes(graph) |->
                              Tensor(ConstStorage(i))]
          /\ pc' = "constructed"
          /\ UNCHANGED ret
  /\ NoRuntimeYet

NextConstruct ==
  \/ PrepareGraphForStaticModule
  \/ CheckOptFlags
  \/ BuildModule

SpecConstruct == InitConstruct /\ [][NextConstruct]_vars

(***************************************************************************)
(* Invokes with any number of positional arguments and with keyword        *)
(* arguments, on modules built from a graph or from a scripted module.     *)
(***************************************************************************)
\* how the StaticModule was built: from a graph (no schema), from a module
\* whose self was erased, from a module whose graph still reads self
ModuleKinds == {"graph", "module", "module_self"}

\* the `handle schema` block of the constructor: schema_, first_input_is_self_
WithSchema(m, kind) ==
  [f \in DOMAIN m \cup {"schema_", "first_input_is_self_"} |->
     IF f = "schema_" THEN kind # "graph"
     ELSE IF f = "first_input_is_self_" THEN kind = "module_self"
     ELSE m[f]]

InvokeWirings ==
  {Wiring(<<"x">>, <<>>, <<<<"x">>>>, <<"v1">>),
   Wiring(<<"x", "y">>, <<>>, <<<<"x">>>>, <<"v1">>),
   Wiring(<<"x", "y">>, <<>>, <<<<"x", "y">>, <<"v1">>>>, <<"v2">>)}

InvokeKinds == {[kind |-> "add", ann |-> {}], [kind |-> "op", ann |-> {}]}

InvokeGraphs ==
  UNION {{MkGraph(w, kinds) : kinds \in [DOMAIN w.wires -> InvokeKinds]} :
           w \in InvokeWirings}

\* the arguments of a call: positional count and number of keyword arguments
\* (each names a parameter that no positional argument fills)
MaxArgs == 3
MaxKwargs == 1

InitInvoke ==
  /\ graph \in InvokeGraphs
  /\ opts \in {o \in Options : o.enable_out_variant /\ ~o.optimize_memory}
  /\ \E kind \in ModuleKinds : sm = WithSchema(StaticModule(graph, opts), kind)
  /\ constants_ = <<>>
  /\ inputs_ = [i \in DOMAIN graph.inputs |-> None]
  /\ nodeOut = [k \in DOMAIN OpNodes(graph) |->
                  [j \in DOMAIN OpNodes(graph)[k].outs |-> None]]
  /\ storages = [st \in StorageIds(graph) |-> [ptr |-> NullPtr, nbytes |-> 0]]
  /\ heap = [st \in StorageIds(graph) |-> Garbage]
  /\ arena = <<>>
  /\ planner = NoPlanner
  /\ pc = "idle"
  /\ cur = 0
  /\ args = 0
  /\ ret = NoRet
  /\ prevRet = NoRet
  /\ trace = <<>>
  /\ stats = [runs |-> 0, planners |-> 0, buffers |-> 0]
  /\ corrupt = FALSE

\* number of slots the module fills itself
SelfSlots(m) == IF m.first_input_is_self_ THEN 1 ELSE 0

\* a set_inputs that takes keyword arguments without looking for a schema
set_inputs_NoSchemaCheck(m, size, n, kw, build) ==
  IF kw > 0
  THEN IF SelfSlots(m) + n + kw # size THEN "ArityMismatch" ELSE "set"
  ELSE IF SelfSlots(m) + n = size THEN "set"
       ELSE IF build = "debug" THEN "abort"
       ELSE IF SelfSlots(m) + n > size THEN "overflow" ELSE "partial"

\* what StaticRuntime::set_inputs does with n positional and kw keyword
\* arguments when inputs_ has `size` slots: with keyword arguments it needs
\* the schema, whose checkAndNormalizeInputs throws unless every parameter
\* gets exactly one value; without them the counts are compared by DCHECK_EQ
\* only, which aborts a debug build and is absent from a release build
set_inputs(m, size, n, kw, build) ==
  IF kw > 0
  THEN IF ~m.schema_ THEN "MissingSchema"
       ELSE IF SelfSlots(m) + n + kw # size THEN "ArityMismatch" ELSE "set"
  ELSE IF SelfSlots(m) + n = size THEN "set"
       ELSE IF build = "debug" THEN "abort"
       ELSE IF SelfSlots(m) + n > size THEN "overflow" ELSE "partial"

CallStep(n, kw) == [step |-> "set_inputs", node |-> 0, nargs |-> n, kwargs |-> kw]

\* operator() up to the return of set_inputs; a write past the end of
\* inputs_ (release build, too many arguments) either goes unnoticed or
\* ends the process
Invoke(shape, n, kw, build, ub) ==
  /\ pc = "idle"
  /\ stats.runs < MaxRuns
  /\ LET a == allocate(planner, storages, arena, nodeOut)
         sts0 == IF planner.exists THEN a.storages ELSE storages
         out == set_inputs(sm, Len(inputs_), n, kw, build)
         written == IF out = "partial" THEN 1..(SelfSlots(sm) + n)
                    ELSE DOMAIN inputs_
         head == IF planner.exists THEN <<Step("allocate", 0)>> ELSE <<>>
     IN /\ planner' = IF planner.exists THEN a.planner ELSE planner
        /\ arena' = IF planner.exists THEN a.arena ELSE arena
        /\ trace' = Append(head, CallStep(n, kw))
        /\ args' = shape
        /\ corrupt' = FALSE
        /\ IF out \in {"MissingSchema", "ArityMismatch"}
           THEN /\ ret' = [status |-> out, args |-> shape, values |-> <<>>]
                /\ prevRet' = ret
                /\ stats' = [stats EXCEPT
                               !.runs = @ + 1,
                               !.buffers = IF planner.exists /\ a.allocated
                                           THEN @ + 1 ELSE @]
                /\ pc' = "idle"
                /\ storages' = sts0
                /\ UNCHANGED <<inputs_, heap, cur>>
           ELSE IF out = "abort" \/ (out = "overflow" /\ ub = "crash")
           THEN /\ pc' = "aborted"
                /\ stats' = [stats EXCEPT !.runs = @ + 1]
                /\ storages' = sts0
                /\ UNCHANGED <<inputs_, heap, cur, ret, prevRet>>
           ELSE /\ inputs_' = [i \in DOMAIN inputs_ |->
                                 IF i \in written THEN Tensor(ArgStorage(i))
                                 ELSE inputs_[i]]
                /\ storages' = [st \in DOMAIN sts0 |->
                                  IF st[1] = "arg" /\ st[2] \in written
                                  THEN [ptr |-> HeapPtr, nbytes |-> shape * UnitBytes]
                                  ELSE sts0[st]]
                /\ heap' = [st \in DOMAIN heap |->
                              IF st[1] = "arg" /\ st[2] \in written
                              THEN ArgTerm(st[2], shape) ELSE heap[st]]
                /\ stats' = IF planner.exists /\ a.allocated
                            THEN [stats EXCEPT !.buffers = @ + 1] ELSE stats
                /\ cur' = 1
                /\ pc' = AfterNode(0)
                /\ UNCHANGED <<ret, prevRet>>
  /\ UNCHANGED <<graph, opts, constants_, sm, nodeOut>>

NextInvoke ==
  \/ \E shape \in 1..MaxShape, n \in 0..MaxArgs, kw \in 0..MaxKwargs,
        build \in {"debug", "release"}, ub \in {"unnoticed", "crash"} :
       Invoke(shape, n, kw, build, ub)
  \/ RunNode
  \/ KernelThrows
  \/ CreatePlanner
  \/ Deallocate
  \/ CleanUpInputs
  \/ ReturnOutputs

SpecInvoke == InitInvoke /\ [][NextInvoke]_vars

(***************************************************************************)
(* A second StaticRuntime over the same StaticModule. Its inputs_, nodes_  *)
(* and planner_ are its own (StaticRuntime::StaticRuntime copies the node  *)
(* templates); its input and output pointers for constants point into the *)
(* module's constants_, which is all the two runtimes share.               *)
(***************************************************************************)
\* the constants the nodes read are tensors, so the nodes of any runtime of
\* this module run when their inputs are set
ConstantsReadable ==
  \A k \in DOMAIN sm.node_inputs_ssa_def_map_ :
    \A i \in DOMAIN sm.node_inputs_ssa_def_map_[k] :
      sm.node_inputs_ssa_def_map_[k][i][1] = CONSTANT_VALUE =>
        constants_[sm.node_inputs_ssa_def_map_[k][i][2]].tag = "Tensor"

\* the other runtime finishes an invoke: it moves its outputs out of the
\* slots its output pointers name, the module's constant cells among them
OtherRuntimeReturns ==
  /\ ConstantsReadable
  /\ constants_' = MovedOut(constants_, CONSTANT_VALUE)
  /\ UNCHANGED <<graph, opts, sm, inputs_, nodeOut, storages, heap, arena,
                 planner, pc, cur, args, ret, prevRet, trace, stats, corrupt>>

NextShared ==
  \/ Next
  \/ OtherRuntimeReturns

SpecShared == Init /\ [][NextShared]_vars

(***************************************************************************)
(* StaticRuntime::benchmark(args, kwargs, 0, 1): benchmark_model runs      *)
(* operator() once, benchmark_individual_ops runs the graph once more,     *)
(* check_for_memory_leak inspects the slots, and a debug build              *)
(* (#ifndef NDEBUG) ends with display_nodes.                                *)
(***************************************************************************)
\* the head of the trace of a benchmark call: its phase and what the
\* runtime looked like when benchmark_model's operator() had returned
BenchStep(phase, snap) ==
  [step |-> "benchmark", node |-> phase, after_invoke |-> snap]

InBenchmark == trace # <<>> /\ trace[1].step = "benchmark"

Phase == IF InBenchmark THEN trace[1].node ELSE 0

RunReturned == trace[Len(trace)].step = "return"

\* the state of the runtime a caller can observe between calls
Observable ==
  [exists |-> planner.exists,
   sizes |-> [i \in DOMAIN planner.managed_tensors_ |->
                planner.managed_tensors_[i].size],
   managed_bytes |-> planner.managed_bytes_,
   inputs |-> inputs_,
   outputs |-> nodeOut,
   data |-> [st \in DOMAIN storages |->
               [nbytes |-> storages[st].nbytes,
                bytes |-> ReadStorage(storages, heap, arena, st)]]]

\* StaticRuntime::check_for_memory_leak passes
check_for_memory_leak(output_returned) ==
  opts.cleanup_activations =>
    /\ \A i \in DOMAIN inputs_ : inputs_[i].tag = "None"
    /\ \A k \in DOMAIN nodeOut :
         \A j \in DOMAIN nodeOut[k] :
           IF <<k, j>> \notin OutputSlots(sm)
           THEN nodeOut[k][j].tag # "None" =>
                  storages[nodeOut[k][j].st].ptr = NullPtr
           ELSE output_returned => nodeOut[k][j].tag = "None"

\* allocate (if a planner exists) and set_inputs at the head of a run of the
\* benchmark; phase and snapshot go to the head of the trace
BenchRun(shape, phase, snap) ==
  /\ LET a == allocate(planner, storages, arena, nodeOut)
         sts0 == IF planner.exists THEN a.storages ELSE storages
     IN /\ planner' = IF planner.exists THEN a.planner ELSE planner
        /\ arena' = IF planner.exists THEN a.arena ELSE arena
        /\ stats' = IF planner.exists /\ a.allocated
                    THEN [stats EXCEPT !.buffers = @ + 1] ELSE stats
        /\ storages' = [st \in DOMAIN sts0 |->
                          IF st[1] = "arg"
                          THEN [ptr |-> HeapPtr, nbytes |-> shape * UnitBytes]
                          ELSE sts0[st]]
  /\ inputs_' = [i \in DOMAIN inputs_ |-> Tensor(ArgStorage(i))]
  /\ heap' = [st \in DOMAIN heap |->
                IF st[1] = "arg" THEN ArgTerm(st[2], shape) ELSE heap[st]]
  /\ trace' = <<BenchStep(phase, snap)>>
  /\ args' = shape
  /\ corrupt' = FALSE
  /\ cur' = 1
  /\ pc' = AfterNode(0)
  /\ UNCHANGED <<graph, opts, constants_, sm, nodeOut, ret, prevRet>>

\* benchmark_model(args, kwargs, 0, 1): the head of its one operator()
BenchmarkModel(shape) ==
  /\ pc = "idle"
  /\ ~InBenchmark
  /\ stats.runs <= 1
  /\ BenchRun(shape, 1, <<>>)

\* benchmark_individual_ops(args, kwargs, 0, 1): set_inputs (setup), then
\* the head of the main run: set_inputs and allocate
BenchmarkIndividualOps ==
  /\ pc = "idle"
  /\ Phase = 1
  /\ RunReturned
  /\ BenchRun(args, 2, Observable)

\* the tail of benchmark in a release build: check_for_memory_leak()
BenchmarkEnd ==
  /\ pc = "idle"
  /\ Phase = 2
  /\ RunReturned
  /\ pc' = IF check_for_memory_leak(TRUE) THEN "bench_done" ELSE "bench_failed"
  /\ UNCHANGED <<graph, opts, constants_, sm, inputs_, nodeOut, storages, heap,
                 arena, planner, cur, args, ret, prevRet, trace, stats, corrupt>>

\* the tail of benchmark in a debug build: the head of display_nodes follows
\* a check_for_memory_leak() that passed
DisplayNodes ==
  /\ pc = "idle"
  /\ Phase = 2
  /\ RunReturned
  /\ check_for_memory_leak(TRUE)
  /\ BenchRun(args, 3, trace[1].after_invoke)

\* display_nodes returns after the cleanup; it moves no output out
DisplayNodesEnd ==
  /\ pc = "return"
  /\ Phase = 3
  /\ pc' = "bench_done"
  /\ UNCHANGED <<graph, opts, constants_, sm, inputs_, nodeOut, storages, heap,
                 arena, planner, cur, args, ret, prevRet, trace, stats, corrupt>>

NextBenchmark ==
  \/ \E shape \in 1..MaxShape : ~InBenchmark /\ stats.runs = 0 /\ InvokeAllocate(shape)
  \/ \E shape \in 1..MaxShape : BenchmarkModel(shape)
  \/ SetInputs
  \/ RunNode
  \/ KernelThrows
  \/ CreatePlanner
  \/ Deallocate
  \/ CleanUpInputs
  \/ Phase # 3 /\ ReturnOutputs
  \/ BenchmarkIndividualOps
  \/ BenchmarkEnd
  \/ DisplayNodes
  \/ DisplayNodesEnd

SpecBenchmark == Init /\ [][NextBenchmark]_vars

SetMax(S) == CHOOSE m \in S : \A x \in S : x <= m

\* the aligned storage sizes of the tensors of cluster i, as they are now
ObservedSizes(i) ==
  {compute_aligned_tensor_size(storages[TensorStorage(nodeOut, t)].nbytes) :
     t \in Range(planner.managed_tensors_[i].tensors)}

(***************************************************************************)
(* The planner driven directly: between invokes a client calls allocate    *)
(* and deallocate on the runtime's planner; kernels may fail and inputs    *)
(* may be empty.                                                           *)
(***************************************************************************)
PlannerGraphs ==
  {g \in Graphs :
     /\ g.inputs = <<"x">>
     /\ g.outputs \in {<<"v2">>, <<"v3">>}
     /\ \A k \in DOMAIN g.nodes : g.nodes[k].kind \in {"add", "op"} /\ g.nodes[k].ann = {}}

InitPlanner ==
  /\ Init
  /\ graph \in PlannerGraphs
  /\ opts.cleanup_activations
  /\ opts.enable_out_variant

\* n.run() throws at node cur: the exception leaves operator() at once
KernelFails ==
  /\ pc = "run"
  /\ ret' = [status |-> "error", args |-> args, values |-> <<>>]
  /\ prevRet' = ret
  /\ stats' = [stats EXCEPT !.runs = @ + 1]
  /\ pc' = "idle"
  /\ UNCHANGED <<graph, opts, constants_, sm, inputs_, nodeOut, storages, heap,
                 arena, planner, cur, args, trace, corrupt>>

\* planner->allocate() outside an invoke (stats counts what invokes do)
PlannerAllocate ==
  /\ pc = "idle"
  /\ planner.exists
  /\ LET a == allocate(planner, storages, arena, nodeOut) IN
       /\ planner' = a.planner
       /\ storages' = a.storages
       /\ arena' = a.arena
  /\ pc' = "planner_allocated"
  /\ UNCHANGED <<graph, opts, constants_, sm, inputs_, nodeOut, heap, cur, args,
                 ret, prevRet, trace, stats, corrupt>>

\* planner->deallocate() right after it
PlannerDeallocate ==
  /\ pc = "planner_allocated"
  /\ LET d == deallocate(planner, storages, heap, nodeOut)
         sts1 == Release(d.storages, Referenced(inputs_, constants_, d.nodeOut))
     IN /\ planner' = d.planner
        /\ nodeOut' = d.nodeOut
        /\ storages' = sts1
        /\ heap' = ReleaseHeap(d.heap, sts1)
  /\ arena' = <<>>
  /\ pc' = "idle"
  /\ UNCHANGED <<graph, opts, constants_, sm, inputs_, cur, args, ret, prevRet,
                 trace, stats, corrupt>>

NextPlanner ==
  \/ \E shape \in 0..MaxShape : InvokeAllocate(shape)
  \/ SetInputs
  \/ RunNode
  \/ KernelFails
  \/ CreatePlanner
  \/ Deallocate
  \/ CleanUpInputs
  \/ ReturnOutputs
  \/ PlannerAllocate
  \/ PlannerDeallocate

SpecPlanner == InitPlanner /\ [][NextPlanner]_vars

\* C11: no step lowers the learned size of a managed cluster, and each
\* deallocate sets it to the maximum of its previous value and the aligned
\* storage sizes of the cluster's tensors at that moment.
C11_LearnedSizeMonotonic ==
  [][planner.exists =>
       \A i \in DOMAIN planner.managed_tensors_ :
         /\ planner'.managed_tensors_[i].size >= planner.managed_tensors_[i].size
         /\ pc = "deallocate" =>
              planner'.managed_tensors_[i].size =
                SetMax({planner.managed_tensors_[i].size} \cup ObservedSizes(i))]_vars

\* a second deallocate has raised a learned size
C11_Witness ==
  /\ pc = "clean_inputs"
  /\ stats.runs = 1
  /\ ret.args = 1
  /\ args = 2
  /\ \E i \in DOMAIN planner.managed_tensors_ :
       /\ planner.managed_tensors_[i].size = 2 * gAlignment
       /\ Len(planner.managed_tensors_[i].tensors) >= 2

\* the bytes the clusters need for inputs of the given shape: per cluster
\* the largest aligned size among its tensors in the reference execution
ExpectedBytes(shape) ==
  SumSeq([i \in DOMAIN planner.managed_tensors_ |->
            SetMax({compute_aligned_tensor_size(
                      RefValue(graph, SlotValueOf(graph, t), shape).nbytes) :
                      t \in Range(planner.managed_tensors_[i].tensors)})])

InNodeLoop == pc \in {"set_inputs", "run"}

\* C12: an invoke that starts with a planner whose managed_bytes is nonzero
\* allocates exactly one buffer, of that size, and no other step of an
\* invoke allocates a buffer; deallocate never lowers managed_bytes; when
\* run 2 had larger inputs than run 1, run 3 has one buffer of the size the
\* run-2 tensors need.
C12_OneBufferPerRun ==
  /\ [](/\ (InNodeLoop /\ planner.exists /\ planner.managed_bytes_ > 0) =>
             /\ planner.buffer_ = planner.managed_bytes_
             /\ arena # <<>>
        /\ (InNodeLoop /\ planner.exists /\ stats.runs = 2
              /\ ret.status = "ok" /\ prevRet.status = "ok"
              /\ prevRet.args < ret.args) =>
             planner.buffer_ = ExpectedBytes(ret.args))
  /\ [][/\ pc = "idle" =>
             stats'.buffers =
               stats.buffers +
                 (IF planner.exists /\ planner.managed_bytes_ > 0 THEN 1 ELSE 0)
        /\ pc # "idle" => stats'.buffers = stats.buffers
        /\ (pc = "deallocate" /\ planner.exists) =>
             planner'.managed_bytes_ >= planner.managed_bytes_]_vars

C12_Witness ==
  /\ pc = "run"
  /\ stats.runs = 2
  /\ stats.buffers = 2
  /\ ret.status = "ok"
  /\ prevRet.status = "ok"
  /\ ret.args = 2
  /\ prevRet.args = 1
  /\ planner.buffer_ >= 4 * gAlignment

\* a deallocate called now changes neither managed_bytes nor a learned size
SizesKept ==
  /\ planner'.managed_bytes_ = planner.managed_bytes_
  /\ \A i \in DOMAIN planner.managed_tensors_ :
       planner'.managed_tensors_[i].size = planner.managed_tensors_[i].size

\* no managed tensor has bytes outside the buffer
BoundOrEmpty ==
  \A s \in ManagedSlots :
    nodeOut[s[1]][s[2]].tag = "Tensor" =>
      \/ storages[nodeOut[s[1]][s[2]].st].nbytes = 0
      \/ storages[nodeOut[s[1]][s[2]].st].ptr[1] = "arena"

LiveTogether(u, v) ==
  v \in MapGet(sm.alive_during, u) \/ u \in MapGet(sm.alive_during, v)

\* C14: any two distinct values of one same-storage cluster either have no
\* edge in the liveness map or may alias according to the alias database.
C14_ClusterLiveness ==
  pc = "done" =>
    \A u \in DOMAIN sm.same_storage_values :
      \A v \in Range(sm.same_storage_values[u]) :
        u # v => (~LiveTogether(u, v) \/ mayAlias(graph, u, v))

\* C15: every graph input, every graph output and every output of a
\* constant node is in the always-alive set GetAlwaysAliveValues returns.
C15_SeedsAlwaysAlive ==
  pc # "construct" =>
    /\ Range(graph.inputs) \subseteq sm.external_values_
    /\ Range(graph.outputs) \subseteq sm.external_values_
    /\ \A k \in DOMAIN graph.nodes :
         graph.nodes[k].kind = ConstantKind =>
           Range(graph.nodes[k].outs) \subseteq sm.external_values_

C15_Witness ==
  /\ pc = "init_values"
  /\ Len(graph.outputs) = 2
  /\ ConstNodes(graph) # <<>>
  /\ Range(graph.outputs) \subseteq sm.external_values_
  /\ \E v \in NodeOuts(graph) : v \notin sm.external_values_

\* the nodes that have v as an input or as an output
Touching(v) ==
  {k \in DOMAIN graph.nodes :
     Contains(graph.nodes[k].ins, v) \/ Contains(graph.nodes[k].outs, v)}

\* where the node scan meets v first: the node, then inputs before outputs
FirstAppearance(v) ==
  LET k == CHOOSE n \in Touching(v) : \A m \in Touching(v) : n <= m
      n == graph.nodes[k]
  IN <<k, IF Contains(n.ins, v) THEN IndexOf(n.ins, v)
          ELSE Len(n.ins) + IndexOf(n.outs, v)>>

Earlier(p, q) == p[1] < q[1] \/ (p[1] = q[1] /\ p[2] < q[2])

\* C16: the candidates GetMemoryPlanningCandidates returns are exactly the
\* values that some node touches and that only nodes satisfying
\* canReuseInputsOutputs touch (one ineligible node removes the value);
\* they come in order of first appearance in the node scan, without
\* duplicates.
C16_Candidates ==
  pc \in {"init_values", "reuse", "done"} =>
    /\ Range(sm.optimizable) =
         {v \in AllValues(graph) :
            /\ Touching(v) # {}
            /\ \A k \in Touching(v) : canReuseInputsOutputs(graph.nodes[k])}
    /\ \A i, j \in DOMAIN sm.optimizable :
         i < j => Earlier(FirstAppearance(sm.optimizable[i]),
                          FirstAppearance(sm.optimizable[j]))

C16_Witness ==
  /\ pc = "reuse"
  /\ Len(sm.optimizable) >= 3
  /\ \E v \in AllValues(graph) \ Range(sm.optimizable) :
       /\ \E k \in Touching(v) : canReuseInputsOutputs(graph.nodes[k])
       /\ \E k \in Touching(v) : ~canReuseInputsOutputs(graph.nodes[k])

NoDuplicates(seq) == \A i, j \in DOMAIN seq : seq[i] = seq[j] => i = j

\* C17: after every step of GenerateSameStorageValues the same-storage map
\* is a partition of its keys: every key is a member of its own cluster, a
\* cluster has no duplicates, and every member of a cluster is a key with
\* that same cluster.
C17_Partition ==
  \A v \in DOMAIN sm.same_storage_values :
    /\ v \in Range(sm.same_storage_values[v])
    /\ NoDuplicates(sm.same_storage_values[v])
    /\ \A u \in Range(sm.same_storage_values[v]) :
         /\ u \in DOMAIN sm.same_storage_values
         /\ sm.same_storage_values[u] = sm.same_storage_values[v]

\* the analysis has finished and the reuse loop has merged two values that
\* do not alias
C17_Witness ==
  /\ pc = "done"
  /\ \E v \in DOMAIN sm.same_storage_values :
       \E a, b \in Range(sm.same_storage_values[v]) :
         a # b /\ ~mayAlias(graph, a, b) /\ ~LiveTogether(a, b)

\* the always-alive values that have a same-storage cluster
AliveKeys == sm.external_values_ \cap DOMAIN sm.same_storage_values

\* the greedy reuse step never takes an always-alive value as the value to
\* place or as a placed value, and leaves the cluster of every always-alive
\* value as the initialisation loop built it
ReuseSkipsAlwaysAlive ==
  /\ [](Range(sm.seen) \cap sm.external_values_ = {})
  /\ [][pc = "reuse" =>
          \A a \in AliveKeys :
            sm'.same_storage_values[a] = sm.same_storage_values[a]]_vars

\* C18 as stated: no always-alive value is in the candidate list produced by
\* the analysis, and none is ever merged into another value's cluster by the
\* greedy reuse step.
C18_NeverCandidates ==
  /\ [](Range(sm.optimizable) \cap sm.external_values_ = {})
  /\ ReuseSkipsAlwaysAlive

\* C18, amended: the candidate list may contain always-alive values (graph
\* inputs and outputs that only eligible nodes touch), but the greedy reuse
\* step skips each of them: none is ever placed, none is ever offered for
\* reuse, and the cluster of none is changed by the reuse loop.
C18_CandidatesSkipped ==
  /\ [](pc = "done" =>
          \A i \in DOMAIN sm.optimizable :
            sm.optimizable[i] \in sm.external_values_
              => sm.optimizable[i] \notin Range(sm.seen))
  /\ ReuseSkipsAlwaysAlive

\* the reuse loop has passed over an always-alive candidate and has merged
\* two other candidates
C18_Witness ==
  /\ pc = "done"
  /\ Range(sm.optimizable) \cap sm.external_values_ # {}
  /\ \E v \in Range(sm.seen) : Len(sm.same_storage_values[v]) >= 2

\* the option combinations the constructor must reject
Conflicting(o) ==
  \/ o.optimize_graph_output_memory
       /\ (~o.enable_out_variant \/ ~o.optimize_memory)
  \/ o.optimize_memory /\ ~o.enable_out_variant

\* C19: the option checks of the constructor fail with InvalidOptions when
\* optimize_graph_output_memory is set without enable_out_variant and
\* optimize_memory, and when optimize_memory is set without
\* enable_out_variant; for every other combination they pass.
C19_InvalidOptions ==
  /\ [](pc \in {"analyse", "constructed"} => ~Conflicting(opts))
  /\ []((pc = "failed" /\ ret.status = "InvalidOptions") => Conflicting(opts))
  /\ [][pc = "check_opts" =>
          IF Conflicting(opts)
          THEN pc' = "failed" /\ ret'.status = "InvalidOptions"
          ELSE pc' = "analyse"]_vars

\* optimize_memory without enable_out_variant was rejected
C19_Witness ==
  /\ pc = "failed"
  /\ ret.status = "InvalidOptions"
  /\ opts.optimize_memory
  /\ ~opts.enable_out_variant
  /\ ~opts.optimize_graph_output_memory

\* a graph the support check must reject
Unsupported(g) ==
  \/ \E i \in DOMAIN g.nodes : Blocks(g.nodes[i]) > 0
  \/ \E i \in DOMAIN g.nodes :
       /\ g.nodes[i].kind # ConstantKind
       /\ ~maybeOperator(g.nodes[i].kind)
       /\ ~nativeOpIsRegistered(g.nodes[i].kind)

\* C20: construction fails with UnsupportedGraph if a top-level node has a
\* sub-block or a non-constant node has neither a resolvable operator nor a
\* native implementation; otherwise the support check passes.
C20_UnsupportedGraph ==
  /\ [](pc \in {"check_opts", "analyse", "constructed"} => ~Unsupported(graph))
  /\ []((pc = "failed" /\ ret.status = "UnsupportedGraph") => Unsupported(graph))
  /\ [][pc = "construct" =>
          IF Unsupported(graph)
          THEN pc' = "failed" /\ ret'.status = "UnsupportedGraph"
          ELSE pc' = "check_opts"]_vars

\* a graph whose operators all resolve was rejected for a sub-block
C20_Witness ==
  /\ pc = "failed"
  /\ ret.status = "UnsupportedGraph"
  /\ \E i \in DOMAIN graph.nodes : Blocks(graph.nodes[i]) > 0
  /\ \A i \in DOMAIN graph.nodes :
       graph.nodes[i].kind = ConstantKind
         \/ maybeOperator(graph.nodes[i].kind)
         \/ nativeOpIsRegistered(graph.nodes[i].kind)

\* the call of the invoke in progress, or of the last one
Calls == {i \in DOMAIN trace : trace[i].step = "set_inputs"}

NoNodeRun == \A i \in DOMAIN trace : trace[i].step # "run"

\* C21: an invoke with keyword arguments on a module without schema fails
\* with the missing-schema error, and no node runs in that invoke.
C21_MissingSchema ==
  \A i \in Calls :
    (trace[i].kwargs > 0 /\ ~sm.schema_)
      => /\ pc = "idle"
         /\ ret.status = "MissingSchema"
         /\ NoNodeRun

\* a runtime that has already run once rejected keyword arguments
C21_Witness ==
  /\ ret.status = "MissingSchema"
  /\ prevRet.status = "ok"
  /\ planner.exists
  /\ NoNodeRun

\* C22: an invoke whose argument count disagrees with the number of graph
\* inputs (self counted) fails with ArityMismatch and runs no node.
C22_ArityMismatch ==
  \A i \in Calls :
    (sm.schema_ \/ trace[i].kwargs = 0)
      /\ SelfSlots(sm) + trace[i].nargs + trace[i].kwargs # Len(inputs_)
      => /\ pc = "idle"
         /\ ret.status = "ArityMismatch"
         /\ NoNodeRun

\* this invoke follows one that a kernel failure ended
AfterFailure == pc # "idle" /\ ret.status = "error"

\* C23: when a kernel fails at a node, the invoke ends there with the error
\* (no deallocate, no input clearing), and the next invoke on the runtime
\* runs every node on tensors, corrupts nothing and returns the outputs of
\* the sequential executor, whether or not a planner existed at the failure.
C23_RecoversAfterFailure ==
  /\ [](AfterFailure =>
          /\ ~corrupt
          /\ pc = "run" =>
               \A i \in DOMAIN NodeInputs(cur) : NodeInputs(cur)[i].tag = "Tensor")
  /\ []((Finished /\ prevRet.status = "error") => NodeOutputsCorrect)
  /\ [][(pc = "run" /\ pc' = "idle") =>
          /\ ret'.status = "error"
          /\ planner' = planner
          /\ inputs_' = inputs_]_vars

\* this runtime takes no part in the step
OtherRuntimeStep == UNCHANGED <<inputs_, nodeOut, planner, pc, cur, args, trace, stats>>

\* C24: two runtimes over one module may interleave their invokes: a step
\* of the other runtime changes nothing this runtime reads (constants,
\* wiring, analysis results, this runtime's slots and arena), so this
\* runtime's first invoke succeeds and returns its constants as when alone.
C24_RuntimesIsolated ==
  /\ [][OtherRuntimeStep =>
          UNCHANGED <<constants_, sm, graph, opts, storages, heap, arena>>]_vars
  /\ []((pc = "idle" /\ stats.runs = 1) =>
          /\ ret.status = "ok"
          /\ \A i \in DOMAIN ret.values :
               (/\ sm.output_ssa_defs_[i][1] = CONSTANT_VALUE
                /\ \A j \in 1..(i - 1) :
                     sm.output_ssa_defs_[j] # sm.output_ssa_defs_[i])
                 => ret.values[i].tag = "Tensor")

\* the nodes v = view(x) with x a graph input, v read by a later node, and
\* the alias database saying v may alias x
ViewsOfInputs ==
  {k \in DOMAIN graph.nodes :
     /\ graph.nodes[k].kind = "view"
     /\ Contains(graph.inputs, graph.nodes[k].ins[1])
     /\ mayAlias(graph, graph.nodes[k].outs[1], graph.nodes[k].ins[1])
     /\ \E n \in (k + 1)..Len(graph.nodes) :
          Contains(graph.nodes[n].ins, graph.nodes[k].outs[1])}

\* C25 as stated: in the map GenerateSameStorageValues returns, a view v of
\* a graph input x belongs to x's same-storage cluster.
C25_ViewInInputCluster ==
  pc = "done" =>
    \A k \in ViewsOfInputs :
      Contains(sm.same_storage_values[graph.nodes[k].ins[1]],
               graph.nodes[k].outs[1])

\* C25, amended: a view v of a graph input x is always alive, so the
\* initialisation loop skips it: in the returned map v is alone in its
\* cluster and x's cluster does not contain it.
C25_ViewAlwaysAlive ==
  pc = "done" =>
    \A k \in ViewsOfInputs :
      LET v == graph.nodes[k].outs[1]
          x == graph.nodes[k].ins[1]
      IN /\ v \in sm.external_values_
         /\ x \in sm.external_values_
         /\ sm.same_storage_values[v] = <<v>>
         /\ ~Contains(sm.same_storage_values[x], v)

\* the analysis of a graph with such a view has finished, and the reuse
\* loop has merged two other values
C25_Witness ==
  /\ pc = "done"
  /\ ViewsOfInputs # {}
  /\ \E u \in DOMAIN sm.same_storage_values : Len(sm.same_storage_values[u]) >= 2

\* C26: benchmark(args, kwargs, 0, 1) ends, and leaves the runtime as the
\* invoke it began with left it: same planner existence, learned sizes and
\* managed_bytes, same contents of the input slots and node-output slots.
C26_BenchmarkAsInvoke ==
  /\ pc # "bench_failed"
  /\ (InBenchmark /\ Phase >= 2) => ~(pc = "idle" /\ ret.status = "error")
  /\ pc = "bench_done" => Observable = trace[1].after_invoke

\* the cell an entry of the wiring table names exists and, for node k, is an
\* input slot, a constant cell or an output slot of an earlier node
WellWired(k, def) ==
  \/ def[1] = INPUT_VALUE /\ def[2] \in DOMAIN inputs_
  \/ def[1] = CONSTANT_VALUE /\ def[2] \in DOMAIN constants_
  \/ /\ def[1] \in 1..(k - 1)
     /\ def[2] \in DOMAIN nodeOut[def[1]]

\* C27: once the runtime is constructed, every input of every processed node
\* resolves to an input slot of this runtime, a constant cell of the module or
\* an output slot of a node with a strictly smaller index, and every entry of
\* the module's wiring table names INPUT, CONSTANT or a smaller node index.
C27_InputsWellWired ==
  /\ DOMAIN sm.node_inputs_ssa_def_map_ = DOMAIN nodeOut
  /\ \A k \in DOMAIN sm.node_inputs_ssa_def_map_ :
       \A i \in DOMAIN sm.node_inputs_ssa_def_map_[k] :
         /\ WellWired(k, sm.node_inputs_ssa_def_map_[k][i])
         /\ NodeInputs(k)[i].tag \in {"None", "Tensor"}

\* a node that reads both an input slot or constant cell and an earlier
\* node's output is about to run
C27_Witness ==
  /\ pc = "run"
  /\ cur \in DOMAIN sm.node_inputs_ssa_def_map_
  /\ \E i \in DOMAIN sm.node_inputs_ssa_def_map_[cur] :
       sm.node_inputs_ssa_def_map_[cur][i][1] \in 1..(cur - 1)
  /\ \E k \in DOMAIN sm.node_inputs_ssa_def_map_ :
       \E i \in DOMAIN sm.node_inputs_ssa_def_map_[k] :
         sm.node_inputs_ssa_def_map_[k][i][1] = INPUT_VALUE

\* allocate has just returned and has laid out a buffer
JustAllocated ==
  /\ pc = "set_inputs"
  /\ planner.exists
  /\ planner.managed_bytes_ > 0

\* the clusters allocate places: those with a learned size
PlacedClusters == {i \in DOMAIN planner.managed_tensors_ :
                     planner.managed_tensors_[i].size > 0}

\* the storage record of tensor t of cluster i
ClusterStorage(i, t) ==
  storages[TensorStorage(nodeOut, planner.managed_tensors_[i].tensors[t])]

\* the data pointer all tensors of cluster i share, read from its first tensor
ClusterPtr(i) == ClusterStorage(i, 1).ptr

\* C28: after an allocate with managed_bytes > 0, every tensor of a cluster
\* with a learned size points at one arena address and has the learned size
\* as nbytes; the ranges of these clusters follow one another in list order
\* from offset 0 without gap or overlap, and the last one ends at
\* managed_bytes, the size of the buffer.
C28_ArenaLayout ==
  JustAllocated =>
    LET mts == planner.managed_tensors_ IN
    /\ planner.buffer_ = planner.managed_bytes_
    /\ PlacedClusters # {}
    /\ \A i \in PlacedClusters :
         /\ \A t \in DOMAIN mts[i].tensors :
              /\ nodeOut[mts[i].tensors[t][1]][mts[i].tensors[t][2]].tag = "Tensor"
              /\ ClusterStorage(i, t).ptr = ClusterPtr(i)
              /\ ClusterStorage(i, t).nbytes = mts[i].size
         /\ ClusterPtr(i)[1] = "arena"
         /\ IF \E j \in PlacedClusters : j < i
            THEN LET p == CHOOSE j \in PlacedClusters :
                            j < i /\ \A l \in PlacedClusters : l < i => l <= j
                 IN ClusterPtr(i)[2] = ClusterPtr(p)[2] + mts[p].size
            ELSE ClusterPtr(i)[2] = 0
         /\ IF \E j \in PlacedClusters : j > i
            THEN TRUE
            ELSE ClusterPtr(i)[2] + mts[i].size = planner.managed_bytes_

\* allocate has laid out two clusters, one of them shared by two tensors
C28_Witness ==
  /\ JustAllocated
  /\ Cardinality(PlacedClusters) >= 2
  /\ \E i \in PlacedClusters : Len(planner.managed_tensors_[i].tensors) >= 2

\* the learned sizes of the managed clusters, in list order
LearnedSizes ==
  [i \in DOMAIN planner.managed_tensors_ |-> planner.managed_tensors_[i].size]

\* C29: in every state managed_bytes is the sum of the learned sizes of the
\* managed clusters and every learned size is a multiple of the alignment;
\* managed_bytes and the learned sizes are 0 at construction and change in
\* no step but a deallocate, so managed_bytes is 0 before the first one.
C29_ManagedBytesIsSum ==
  /\ [](/\ planner.managed_bytes_ = SumSeq(LearnedSizes)
        /\ \A i \in DOMAIN LearnedSizes : LearnedSizes[i] % gAlignment = 0
        /\ ~planner.exists => planner.managed_bytes_ = 0)
  /\ [][pc # "deallocate" =>
         /\ planner'.managed_bytes_ = planner.managed_bytes_
         /\ (planner.exists =>
              planner'.managed_tensors_ = planner.managed_tensors_)
         /\ (~planner.exists =>
              \A i \in DOMAIN planner'.managed_tensors_ :
                planner'.managed_tensors_[i].size = 0)]_vars

\* a later deallocate has just ended with two clusters of a learned size
\* above one alignment unit
C29_Witness ==
  /\ pc = "clean_inputs"
  /\ stats.runs >= 1
  /\ planner.managed_bytes_ > 2 * gAlignment
  /\ \E i, j \in DOMAIN LearnedSizes :
       i # j /\ LearnedSizes[i] > gAlignment /\ LearnedSizes[j] > gAlignment

\* the slots the planner manages, over all clusters
ManagedTensorSlots ==
  UNION {Range(planner.managed_tensors_[i].tensors) :
           i \in DOMAIN planner.managed_tensors_}

\* the output slots of nodes with an out-variant kernel and a tensor type
\* whose value is neither always alive nor a graph output
OutVariantTemporaries ==
  {s \in Range(SlotsFrom(graph, 1)) :
     /\ sm.dispatch[s[1]] = "fn_"
     /\ IsTensorKind(OpNodes(graph)[s[1]].kind)
     /\ SlotValueOf(graph, s) \notin GetAlwaysAliveValues(graph)
     /\ SlotValueOf(graph, s) \notin Range(graph.outputs)}

\* C30: the tensors of the planner's clusters are exactly the tensor-typed
\* outputs of out-variant nodes that are neither always alive nor graph
\* outputs, each in one cluster; without enable_out_variant nothing is
\* managed, and without optimize_memory every cluster holds one tensor.
C30_ManagedSet ==
  planner.exists =>
    /\ ManagedTensorSlots = OutVariantTemporaries
    /\ SumSeq([i \in DOMAIN planner.managed_tensors_ |->
                 Len(planner.managed_tensors_[i].tensors)])
         = Cardinality(OutVariantTemporaries)
    /\ ~opts.enable_out_variant => planner.managed_tensors_ = <<>>
    /\ ~opts.optimize_memory =>
         \A i \in DOMAIN planner.managed_tensors_ :
           Len(planner.managed_tensors_[i].tensors) = 1

\* a planner without a same-storage map manages two tensors while the
\* tensor output of another out-variant node, a graph output, is left out
C30_Witness ==
  /\ planner.exists
  /\ opts.enable_out_variant
  /\ ~opts.optimize_memory
  /\ Len(planner.managed_tensors_) >= 2
  /\ \E s \in Range(SlotsFrom(graph, 1)) :
       /\ sm.dispatch[s[1]] = "fn_"
       /\ IsTensorKind(OpNodes(graph)[s[1]].kind)
       /\ s \notin ManagedTensorSlots

(***************************************************************************)
(* Runtimes of graphs with a container node: v1 = k1(x), v2 = pack(v1),    *)
(* v3 = k3(v1), v4 = k4(v3), return v4.                                    *)
(***************************************************************************)
LeakGraphs ==
  {MkGraph(Wiring(<<"x">>, <<>>, <<<<"x">>, <<"v1">>, <<"v1">>, <<"v3">>>>,
                  <<"v4">>), kinds) :
     kinds \in {ks \in [1..4 -> {[kind |-> "add", ann |-> {}],
                                 [kind |-> "op", ann |-> {}],
                                 [kind |-> "pack", ann |-> {}]}] :
                  \A k \in 1..4 : (ks[k].kind = "pack") = (k = 2)}}

\* a list IValue; it holds a reference to the tensor with storage st
List(st) == [tag |-> "List", st |-> st]

InitLeak ==
  /\ graph \in LeakGraphs
  /\ opts \in Options
  /\ ~Analyse(graph, opts).failed
  /\ constants_ = <<>>
  /\ sm = StaticModule(graph, opts)
  /\ inputs_ = [i \in DOMAIN graph.inputs |-> None]
  /\ nodeOut = [k \in DOMAIN OpNodes(graph) |->
                  [j \in DOMAIN OpNodes(graph)[k].outs |-> None]]
  /\ storages = [st \in StorageIds(graph) |-> [ptr |-> NullPtr, nbytes |-> 0]]
  /\ heap = [st \in StorageIds(graph) |-> Garbage]
  /\ arena = <<>>
  /\ planner = NoPlanner
  /\ pc = "idle"
  /\ cur = 0
  /\ args = 0
  /\ ret = NoRet
  /\ prevRet = NoRet
  /\ trace = <<>>
  /\ stats = [runs |-> 0, planners |-> 0, buffers |-> 0]
  /\ corrupt = FALSE

\* ProcessedNode::run of a tensor node
RunTensorNode ==
  /\ pc = "run"
  /\ OpNodes(graph)[cur].kind # "pack"
  /\ RunNode

\* ProcessedNode::run of the container node: the slot receives a list of
\* the node's input
RunPack ==
  /\ pc = "run"
  /\ OpNodes(graph)[cur].kind = "pack"
  /\ \A i \in DOMAIN NodeInputs(cur) : NodeInputs(cur)[i].tag = "Tensor"
  /\ nodeOut' = [nodeOut EXCEPT ![cur][1] = List(NodeInputs(cur)[1].st)]
  /\ trace' = Append(trace, Step("run", cur))
  /\ cur' = cur + 1
  /\ pc' = AfterNode(cur)
  /\ UNCHANGED <<graph, opts, constants_, sm, inputs_, storages, heap, arena,
                 planner, args, ret, prevRet, stats, corrupt>>

NextLeak ==
  \/ \E shape \in 1..MaxShape : InvokeAllocate(shape)
  \/ SetInputs
  \/ RunTensorNode
  \/ RunPack
  \/ CreatePlanner
  \/ Deallocate
  \/ CleanUpInputs
  \/ ReturnOutputs

SpecLeak == InitLeak /\ [][NextLeak]_vars

\* the output slots of the runtime's nodes
NodeSlots == Range(SlotsFrom(graph, 1))

\* the slots whose value the planner constructor put into leaked_values
LeakedSlots ==
  {s \in NodeSlots :
     SlotValueOf(graph, s) \in LeakedValues(graph, sm, opts.enable_out_variant)}

\* the four classes of node-output slots at planner construction
SlotClasses ==
  <<ManagedTensorSlots, LeakedSlots, planner.unmanaged_ivalues_,
    OutputSlots(sm) \cap NodeSlots>>

\* C31: once the planner is constructed every node-output slot is in exactly
\* one of the classes managed tensor, leaked container, unmanaged, graph
\* output; a deallocate sets exactly the unmanaged slots to none and leaves
\* every other slot, the leaked and the graph-output slots among them, as
\* it was.
C31_SlotClasses ==
  /\ [](planner.exists =>
         \A s \in NodeSlots :
           Cardinality({c \in 1..4 : s \in SlotClasses[c]}) = 1)
  /\ [][pc = "deallocate" =>
         \A s \in NodeSlots :
           nodeOut'[s[1]][s[2]] =
             IF s \in planner.unmanaged_ivalues_ THEN None
             ELSE nodeOut[s[1]][s[2]]]_vars

\* a deallocate has just reset an unmanaged slot while a leaked container
\* and a graph output produced by a node keep their values
C31_Witness ==
  /\ pc = "clean_inputs"
  /\ planner.unmanaged_ivalues_ # {}
  /\ ManagedTensorSlots # {}
  /\ \E s \in LeakedSlots : nodeOut[s[1]][s[2]] # None
  /\ \E s \in OutputSlots(sm) \cap NodeSlots : nodeOut[s[1]][s[2]] # None

(***************************************************************************)
(* GetAlwaysAliveValues and GetLivenessMap step by step, on graphs with    *)
(* unused node outputs and containers: sm holds the always-alive set, the  *)
(* scan state of GetLivenessMap (scan), the node the main loop is at (k)   *)
(* and the returned map (alive_during).                                    *)
(***************************************************************************)
LivenessKinds == AnalysisKinds \cup {[kind |-> "pack", ann |-> {}]}

\* an unused output beside a live value, an unused output before a used
\* alias, a value combined with a graph input, a diamond, an output built
\* from two values one of which is combined with a third
LivenessWirings ==
  {Wiring(<<"x">>, <<>>, <<<<"x">>, <<"x">>, <<"v1">>, <<"v2">>>>, <<"v4">>),
   Wiring(<<"x">>, <<>>, <<<<"x">>, <<"v1">>, <<"v1">>, <<"v3">>>>, <<"v4">>),
   Wiring(<<"x">>, <<>>, <<<<"x">>, <<"v1", "x">>, <<"v1">>, <<"v2", "v3">>>>,
          <<"v4">>),
   Wiring(<<"x">>, <<>>, <<<<"x">>, <<"v1">>, <<"v1", "v2">>, <<"v3">>>>,
          <<"v4">>),
   Wiring(<<"x">>, <<>>, <<<<"x">>, <<"x">>, <<"v2", "v1">>, <<"v1", "v3">>>>,
          <<"v4">>)}

LivenessGraphs ==
  UNION {{MkGraph(w, kinds) :
            kinds \in {f \in [DOMAIN w.wires -> LivenessKinds] :
                         \A k \in DOMAIN w.wires : f[k].ann \subseteq DOMAIN w.wires[k]}} :
           w \in LivenessWirings}

InitLiveness ==
  /\ graph \in LivenessGraphs
  /\ opts \in {o \in Options : o.optimize_memory /\ o.cleanup_activations}
  /\ sm = [external_values_ |-> GetAlwaysAliveValues(graph),
           scan |-> LivenessInit, k |-> 1, alive_during |-> <<>>]
  /\ pc = "activate"
  /\ constants_ = <<>>
  /\ inputs_ = <<>>
  /\ nodeOut = <<>>
  /\ storages = <<>>
  /\ heap = <<>>
  /\ arena = <<>>
  /\ planner = NoPlanner
  /\ cur = 0
  /\ args = 0
  /\ ret = NoRet
  /\ prevRet = NoRet
  /\ trace = <<>>
  /\ stats = [runs |-> 0, planners |-> 0, buffers |-> 0]
  /\ corrupt = FALSE

\* the main loop of GetLivenessMap at node k: add_live_value_fn for every
\* output that is not always alive
ActivateNode ==
  /\ pc = "activate"
  /\ LET st == ActivateOutputs(graph, sm.scan, sm.external_values_,
                               graph.nodes[sm.k].outs)
     IN /\ sm' = [sm EXCEPT !.scan = st]
        /\ pc' = IF st.failed THEN "failed" ELSE "traverse"
  /\ RuntimeUntouched

\* the main loop of GetLivenessMap at node k: traverse_node_fn and the
\* erasure of the dead values
TraverseNode ==
  /\ pc = "traverse"
  /\ LET st == traverse_node_fn(sm.scan, sm.k)
     IN /\ sm' = [sm EXCEPT !.scan = st,
                            !.k = IF st.failed \/ sm.k = Len(graph.nodes)
                                  THEN @ ELSE @ + 1]
        /\ pc' = IF st.failed THEN "failed"
                 ELSE IF sm.k = Len(graph.nodes) THEN "check" ELSE "activate"
  /\ RuntimeUntouched

\* the TORCH_CHECK after the main loop and the loop over the nodes' inputs
\* and outputs that follows it
FinishLiveness ==
  /\ pc = "check"
  /\ IF \E v \in DOMAIN sm.scan.use_chain : v \notin sm.external_values_
     THEN /\ sm' = [sm EXCEPT !.scan = [@ EXCEPT !.failed = TRUE]]
          /\ pc' = "failed"
     ELSE LET lm == sm.scan.liveness_map
              pairs == SameNodePairs(graph, lm)
          IN /\ sm' = [sm EXCEPT
                         !.alive_during =
                           [v \in DOMAIN lm |->
                              lm[v] \cup {w \in DOMAIN lm : <<v, w>> \in pairs}]]
             /\ pc' = "done"
  /\ RuntimeUntouched

NextLiveness ==
  \/ ActivateNode
  \/ TraverseNode
  \/ FinishLiveness

SpecLiveness == InitLiveness /\ [][NextLiveness]_vars

\* the step-by-step scan returns what GetLivenessMap computes
ScanAgrees ==
  LET r == GetLivenessMap(graph, sm.external_values_) IN
  /\ pc = "failed" => r.failed
  /\ pc = "done" => ~r.failed /\ r.liveness_map = sm.alive_during

\* GetLivenessMap has returned its map to the constructor
LivenessReturned == pc \notin {"construct", "failed"}

\* the values that are not always alive
Intermediate(v) == v \notin sm.external_values_

\* C32: in the map GetLivenessMap returns, an intermediate input and an
\* intermediate output of one node are in each other's sets, the map is
\* symmetric, and no value is in its own set.
C32_LivenessMapShape ==
  LivenessReturned =>
    LET L == sm.alive_during IN
    /\ \A n \in DOMAIN graph.nodes :
         \A i \in Range(graph.nodes[n].ins), o \in Range(graph.nodes[n].outs) :
           (Intermediate(i) /\ Intermediate(o)) =>
             /\ i \in DOMAIN L /\ o \in DOMAIN L
             /\ o \in L[i] /\ i \in L[o]
    /\ \A v \in DOMAIN L :
         /\ v \notin L[v]
         /\ \A w \in L[v] : w \in DOMAIN L /\ v \in L[w]

\* the returned map pairs an intermediate input with an intermediate
\* output of the same node
C32_Witness ==
  /\ LivenessReturned
  /\ \E n \in DOMAIN graph.nodes :
       \E i \in Range(graph.nodes[n].ins), o \in Range(graph.nodes[n].outs) :
         /\ Intermediate(i) /\ Intermediate(o)
         /\ i \in DOMAIN sm.alive_during /\ o \in sm.alive_during[i]

\* the values a node of the graph produces that are not always alive
IntermediateOuts(n) == {o \in Range(graph.nodes[n].outs) : Intermediate(o)}

\* w is created while v waits for a consumer: v is an output of node i and
\* an input of a node k > i, w an output of a node j with i < j <= k
CreatedWhileLive(v, w) ==
  \E i, j, k \in DOMAIN graph.nodes :
    /\ i < j /\ j <= k
    /\ Contains(graph.nodes[i].outs, v)
    /\ Contains(graph.nodes[k].ins, v)
    /\ Contains(graph.nodes[j].outs, w)

\* every pair of intermediate values one of which is created while the
\* other waits for a consumer is in the returned map
LiveRangesOverlap ==
  pc = "done" =>
    \A v, w \in NodeOuts(graph) :
      (Intermediate(v) /\ Intermediate(w) /\ CreatedWhileLive(v, w)) =>
        /\ v \in DOMAIN sm.alive_during /\ w \in DOMAIN sm.alive_during
        /\ w \in sm.alive_during[v] /\ v \in sm.alive_during[w]

\* a value leaves the use chain only in the traverse step of a node whose
\* intermediate outputs are all activated
RetiredAfterActivation ==
  (DOMAIN sm.scan.use_chain \ DOMAIN sm'.scan.use_chain # {}) =>
    /\ pc = "traverse"
    /\ IntermediateOuts(sm.k) \subseteq DOMAIN sm.scan.liveness_map

\* C33: if an intermediate value v is produced by node i and consumed by
\* node k > i, every intermediate value w produced by a node j with
\* i < j <= k is in L(v) and v is in L(w); a value is retired only after the
\* outputs of the node with its last pending use are activated.
C33_LivenessSound ==
  /\ []LiveRangesOverlap
  /\ [][RetiredAfterActivation]_vars

\* the values the activation step has added to the liveness map
NewlyActivated == DOMAIN sm'.scan.liveness_map \ DOMAIN sm.scan.liveness_map

\* the activation of the node's outputs completes, and every value it
\* activates has its later aliases activated and their users in its use chain
ActivationComplete ==
  pc = "activate" =>
    /\ pc' # "failed"
    /\ \A v \in NewlyActivated :
         \A a \in Range(RefinedAliases(graph, v)) :
           /\ a \in DOMAIN sm'.scan.liveness_map
           /\ Uses(graph, a) # {} =>
                /\ v \in DOMAIN sm'.scan.use_chain
                /\ Uses(graph, a) \subseteq sm'.scan.use_chain[v]

\* an activated value is in the use chain as long as a user of it or of one
\* of its later aliases is still to be processed
LiveUntilLastConsumer ==
  pc \in {"activate", "traverse"} =>
    \A v \in DOMAIN sm.scan.liveness_map :
      (\E a \in Range(RefinedAliases(graph, v)) :
         \E n \in Uses(graph, a) : n = ReturnNode \/ n >= sm.k)
        => v \in DOMAIN sm.scan.use_chain

\* C34: when an intermediate value v is activated, every value created at
\* or after v that may contain an alias of v is activated too and its users
\* join v's use chain, so v stays live until the last consumer of v or of
\* such an alias is processed; the activation completes for every v, also
\* for a v without uses that has a later alias with uses.
C34_AliasesKeepAlive ==
  /\ [][ActivationComplete]_vars
  /\ []LiveUntilLastConsumer

\* C35: when the main scan of GetLivenessMap has processed the last node,
\* every value that still has a use chain is always alive, so the check
\* that follows the scan does not fail.
C35_TerminationCheck ==
  /\ [](pc = "check" => DOMAIN sm.scan.use_chain \subseteq sm.external_values_)
  /\ [][pc = "check" => pc' = "done"]_vars

\* the scan has ended with an always-alive value in the use chain
C35_Witness ==
  /\ pc = "check"
  /\ DOMAIN sm.scan.use_chain # {}

\* C36: the set GetAlwaysAliveValues returns is closed: every output of a
\* non-constant node that may contain an alias of a member is a member.
C36_AlwaysAliveClosed ==
  \A v \in Range(OutsOf(OpNodes(graph))) :
    mayContainAliasSets(graph, {v}, sm.external_values_)
      => v \in sm.external_values_

\* the slots the return statement moves out of
IsOutputSlot(origin, i) == <<origin, i>> \in OutputSlots(sm)

\* after an invoke with arguments of shape ret.args: the slots that are not
\* outputs hold the tensors of that run, the output slots hold none
SlotsKeepRun ==
  /\ \A i \in DOMAIN inputs_ :
       IF IsOutputSlot(INPUT_VALUE, i) THEN inputs_[i] = None
       ELSE /\ inputs_[i] = Tensor(ArgStorage(i))
            /\ ReadStorage(storages, heap, arena, inputs_[i].st)
                 = ArgTerm(i, ret.args)
  /\ \A s \in NodeSlots :
       IF IsOutputSlot(s[1], s[2]) THEN nodeOut[s[1]][s[2]] = None
       ELSE /\ nodeOut[s[1]][s[2]].tag = "Tensor"
            /\ ReadStorage(storages, heap, arena, nodeOut[s[1]][s[2]].st)
                 = RefValue(graph, SlotValueOf(graph, s), ret.args)

\* C37: without cleanup_activations no planner is ever constructed, no
\* allocate or deallocate step is taken, no arena buffer exists, and after
\* each invoke the input slots and the node slots that are not outputs hold
\* the values of that run while the output slots are moved out.
C37_NoCleanup ==
  ~opts.cleanup_activations =>
    /\ ~planner.exists
    /\ stats.planners = 0
    /\ stats.buffers = 0
    /\ arena = <<>>
    /\ \A t \in DOMAIN trace : trace[t].step \notin {"allocate", "deallocate"}
    /\ (pc = "idle" /\ stats.runs > 0) => SlotsKeepRun

\* a second invoke without cleanup has returned and an intermediate node
\* slot keeps its tensor
C37_Witness ==
  /\ ~opts.cleanup_activations
  /\ pc = "idle"
  /\ stats.runs = 2
  /\ ret.status = "ok"
  /\ \E s \in NodeSlots : ~IsOutputSlot(s[1], s[2])
  /\ \E i \in DOMAIN inputs_ : ~IsOutputSlot(INPUT_VALUE, i)

(***************************************************************************)
(* tensorexpr: flatten_index.  Expressions are trees of IntImm, Mul and    *)
(* Add nodes; args holds the two argument vectors, ret the returned        *)
(* expression or the exception.                                            *)
(***************************************************************************)
MaxRank == 3

IntImm(v) == [op |-> "IntImm", v |-> v]
Mul(a, b) == [op |-> "Mul", lhs |-> a, rhs |-> b]
Add(a, b) == [op |-> "Add", lhs |-> a, rhs |-> b]

\* the value of an expression
RECURSIVE Eval(_)
Eval(e) ==
  IF e.op = "IntImm" THEN e.v
  ELSE IF e.op = "Mul" THEN Eval(e.lhs) * Eval(e.rhs)
  ELSE Eval(e.lhs) + Eval(e.rhs)

\* the vectors of at most MaxRank expressions with values in S
ExprVectors(S) == UNION {[1..n -> {IntImm(v) : v \in S}] : n \in 0..MaxRank}

\* a flatten_index whose strides grow from the first dimension
flatten_index_ColMajor(dims, indices) ==
  IF Len(indices) = 1 THEN [status |-> "ok", values |-> <<indices[1]>>]
  ELSE IF Len(dims) # Len(indices)
  THEN [status |-> "malformed_input", values |-> <<>>]
  ELSE IF Len(dims) = 0 THEN [status |-> "ok", values |-> <<IntImm(0)>>]
  ELSE
    LET RECURSIVE Stride(_)
        Stride(i) == IF i = 1 THEN IntImm(1)
                     ELSE Mul(Stride(i - 1), dims[i - 1])
        RECURSIVE Total(_)
        Total(i) == IF i = 0 THEN IntImm(0)
                    ELSE Add(Total(i - 1), Mul(indices[i], Stride(i)))
    IN [status |-> "ok", values |-> <<Total(Len(dims))>>]

\* flatten_index: [status, values]
flatten_index(dims, indices) ==
  IF Len(indices) = 1 THEN [status |-> "ok", values |-> <<indices[1]>>]
  ELSE IF Len(dims) # Len(indices)
  THEN [status |-> "malformed_input", values |-> <<>>]
  ELSE IF Len(dims) = 0 THEN [status |-> "ok", values |-> <<IntImm(0)>>]
  ELSE
    LET ndim == Len(dims)
        RECURSIVE Stride(_)
        Stride(i) == IF i = ndim THEN IntImm(1)
                     ELSE Mul(Stride(i + 1), dims[i + 1])
        RECURSIVE Total(_)
        Total(i) == IF i = 0 THEN IntImm(0)
                    ELSE Add(Total(i - 1), Mul(indices[i], Stride(i)))
    IN [status |-> "ok", values |-> <<Total(ndim)>>]

InitFlatten ==
  /\ args \in [dims : ExprVectors(2..3), indices : ExprVectors(0..2)]
  /\ ret = NoRet
  /\ pc = "idle"
  /\ graph = <<>>
  /\ opts = <<>>
  /\ sm = <<>>
  /\ constants_ = <<>>
  /\ inputs_ = <<>>
  /\ nodeOut = <<>>
  /\ storages = <<>>
  /\ heap = <<>>
  /\ arena = <<>>
  /\ planner = NoPlanner
  /\ cur = 0
  /\ prevRet = NoRet
  /\ trace = <<>>
  /\ stats = [runs |-> 0, planners |-> 0, buffers |-> 0]
  /\ corrupt = FALSE

\* a call of flatten_index(dims, indices)
FlattenIndex ==
  /\ pc = "idle"
  /\ LET r == flatten_index(args.dims, args.indices)
     IN ret' = [status |-> r.status, args |-> args, values |-> r.values]
  /\ pc' = "done"
  /\ UNCHANGED <<graph, opts, constants_, sm, inputs_, nodeOut, storages, heap,
                 arena, planner, cur, args, prevRet, trace, stats, corrupt>>

NextFlatten == FlattenIndex

SpecFlatten == InitFlatten /\ [][NextFlatten]_vars

\* the product of the values of dims[from..Len(dims)]
RECURSIVE Extent(_, _)
Extent(dims, from) ==
  IF from > Len(dims) THEN 1 ELSE Eval(dims[from]) * Extent(dims, from + 1)

\* the row-major linear index of `indices` in an array of shape `dims`
RowMajor(dims, indices) ==
  SumSeq([i \in DOMAIN indices |-> Eval(indices[i]) * Extent(dims, i + 1)])

\* C38: flatten_index returns indices[0] itself when there is one index,
\* whatever dims is; otherwise it raises malformed_input when the lengths
\* differ, returns the constant 0 when both vectors are empty, and returns
\* an expression whose value is the row-major linear index when both have
\* the same length n >= 2.
C38_FlattenIndex ==
  pc = "done" =>
    LET dims == args.dims
        indices == args.indices
    IN IF Len(indices) = 1
       THEN ret.status = "ok" /\ ret.values = <<indices[1]>>
       ELSE IF Len(dims) # Len(indices)
       THEN ret.status = "malformed_input" /\ ret.values = <<>>
       ELSE IF Len(dims) = 0
       THEN ret.status = "ok" /\ ret.values = <<IntImm(0)>>
       ELSE /\ ret.status = "ok"
            /\ Eval(ret.values[1]) = RowMajor(dims, indices)

\* a three-dimensional index with a nonzero leading index has been flattened
C38_Witness ==
  /\ pc = "done"
  /\ Len(args.dims) = 3
  /\ Len(args.indices) = 3
  /\ Eval(args.indices[1]) = 2
  /\ Eval(args.dims[2]) # Eval(args.dims[3])
  /\ ret.status = "ok"
  /\ Eval(ret.values[1]) > 0

====
